---- MODULE Spec2Model ----
(***************************************************************************)
(* Model of the three collectors of github_exporter (repository, issue,    *)
(* pull request): the Collect loops, the name resolver with its glob       *)
(* search pagination, and the flattening of optional record fields into    *)
(* metric samples.                                                         *)
(*                                                                         *)
(* Go strings are sequences of one-character strings, so that Split,       *)
(* Contains and Glob are computed as the code computes them; "" is <<>>.   *)
(* A Go pointer is an option: None for nil, Some(v) for a pointer to v.    *)
(***************************************************************************)
EXTENDS Integers, Sequences, FiniteSets, TLC

(***************************************************************************)
(* Bounds of the model.                                                    *)
(***************************************************************************)
MaxTargets == 2
MaxPolls == 2
MaxSearchPages == 2

(***************************************************************************)
(* Pointers.                                                               *)
(***************************************************************************)
None == <<>>
Some(v) == <<v>>
IsNil(p) == p = <<>>
Deref(p) == p[1]

(***************************************************************************)
(* Strings.                                                                *)
(***************************************************************************)
Empty == <<>>
Slash == "/"
Star == "*"

\* strings.Contains(s, c) for a one-character c
Contains(s, c) == \E i \in 1..Len(s) : s[i] = c

\* strings.Index(s, c) for a one-character c, 1-based; 0 when absent
IndexChar(s, c) ==
  IF Contains(s, c) THEN CHOOSE i \in 1..Len(s) : s[i] = c /\ \A j \in 1..(i - 1) : s[j] # c
  ELSE 0

\* strings.Split(s, c) for a one-character separator: always at least one segment
RECURSIVE Split(_, _)
Split(s, c) ==
  IF ~Contains(s, c) THEN <<s>>
  ELSE LET i == IndexChar(s, c)
       IN <<SubSeq(s, 1, i - 1)>> \o Split(SubSeq(s, i + 1, Len(s)), c)

HasPrefix(s, p) == Len(p) <= Len(s) /\ SubSeq(s, 1, Len(p)) = p
HasSuffix(s, p) == Len(p) <= Len(s) /\ SubSeq(s, Len(s) - Len(p) + 1, Len(s)) = p

\* strings.Index(s, sub), 0-based as in Go; -1 when absent
Index(s, sub) ==
  LET hits == {i \in 0..(Len(s) - Len(sub)) : SubSeq(s, i + 1, i + Len(sub)) = sub}
  IN IF hits = {} THEN -1 ELSE CHOOSE i \in hits : \A j \in hits : i <= j

\* the loop of glob.Glob over the parts before the last one, each found at its
\* leftmost occurrence and cut off the subject together with what precedes it
RECURSIVE GlobParts(_, _, _, _)
GlobParts(parts, i, subj, leadingGlob) ==
  IF i >= Len(parts) THEN [ok |-> TRUE, subj |-> subj]
  ELSE LET idx == Index(subj, parts[i])
           cut == idx + Len(parts[i])
       IN IF i = 1 /\ ~leadingGlob /\ idx # 0 THEN [ok |-> FALSE, subj |-> subj]
          ELSE IF i > 1 /\ idx < 0 THEN [ok |-> FALSE, subj |-> subj]
          ELSE GlobParts(parts, i + 1, SubSeq(subj, cut + 1, Len(subj)), leadingGlob)

\* glob.Glob(pattern, subj) of github.com/ryanuber/go-glob
Glob(pattern, subj) ==
  IF pattern = Empty THEN subj = pattern
  ELSE IF pattern = <<Star>> THEN TRUE
  ELSE LET parts == Split(pattern, Star)
       IN IF Len(parts) = 1 THEN subj = pattern
          ELSE LET r == GlobParts(parts, 1, subj, HasPrefix(pattern, <<Star>>))
               IN r.ok /\ (HasSuffix(pattern, <<Star>>) \/ HasSuffix(r.subj, parts[Len(parts)]))

Digit(d) == <<"0", "1", "2", "3", "4", "5", "6", "7", "8", "9">>[d + 1]

\* fmt.Sprint of a non-negative integer: its decimal digits
RECURSIVE Sprint(_)
Sprint(n) == IF n < 10 THEN <<Digit(n)>> ELSE Sprint(n \div 10) \o <<Digit(n % 10)>>

FormatBool_Digit(b) == IF b THEN <<"1">> ELSE <<"0">>

\* strconv.FormatBool
FormatBool(b) == IF b THEN <<"t", "r", "u", "e">> ELSE <<"f", "a", "l", "s", "e">>

\* time.Time.String(): a readable rendering of the instant, here its epoch
\* seconds followed by the zone name
TimeString(t) == Sprint(t) \o <<" ", "U", "T", "C">>

(***************************************************************************)
(* Names used by the configuration and by the upstream repositories.       *)
(***************************************************************************)
Acme == <<"a", "c", "m", "e">>
AuthService == <<"a", "u", "t", "h", "-", "s", "e", "r", "v", "i", "c", "e">>
PayService == <<"p", "a", "y", "-", "s", "e", "r", "v", "i", "c", "e">>
MailService == <<"m", "a", "i", "l", "-", "s", "e", "r", "v", "i", "c", "e">>
Web == <<"w", "e", "b">>
StarService == <<"*", "-", "s", "e", "r", "v", "i", "c", "e">>
FullNameOf(owner, name) == owner \o <<Slash>> \o name

(***************************************************************************)
(* Descriptors: metric name and label names, fixed at construction.        *)
(***************************************************************************)
RepoLabels == <<"owner", "name">>

\* NewRepoCollector
RepoDesc ==
  [All |-> [name |-> "github_repo_all",
            labels |-> <<"forks", "network", "issues", "stargazers", "subscribers",
                          "watchers", "size">>],
   Pushed |-> [name |-> "github_repo_pushed_timestamp", labels |-> RepoLabels],
   Created |-> [name |-> "github_repo_created_timestamp", labels |-> RepoLabels],
   Updated |-> [name |-> "github_repo_updated_timestamp", labels |-> RepoLabels],
   Forked |-> [name |-> "github_repo_forked", labels |-> RepoLabels],
   Forks |-> [name |-> "github_repo_forks", labels |-> RepoLabels],
   Network |-> [name |-> "github_repo_network", labels |-> RepoLabels],
   Issues |-> [name |-> "github_repo_issues", labels |-> RepoLabels],
   Stargazers |-> [name |-> "github_repo_stargazers", labels |-> RepoLabels],
   Subscribers |-> [name |-> "github_repo_subscribers", labels |-> RepoLabels],
   Watchers |-> [name |-> "github_repo_watchers", labels |-> RepoLabels],
   Size |-> [name |-> "github_repo_size", labels |-> RepoLabels],
   AllowRebaseMerge |-> [name |-> "github_repo_allow_rebase_merge", labels |-> RepoLabels],
   AllowSquashMerge |-> [name |-> "github_repo_allow_squash_merge", labels |-> RepoLabels],
   AllowMergeCommit |-> [name |-> "github_repo_allow_merge_commit", labels |-> RepoLabels],
   Archived |-> [name |-> "github_repo_archived", labels |-> RepoLabels],
   Private |-> [name |-> "github_repo_private", labels |-> RepoLabels],
   HasIssues |-> [name |-> "github_repo_has_issues", labels |-> RepoLabels],
   HasWiki |-> [name |-> "github_repo_has_wiki", labels |-> RepoLabels],
   HasPages |-> [name |-> "github_repo_has_pages", labels |-> RepoLabels],
   HasProjects |-> [name |-> "github_repo_has_projects", labels |-> RepoLabels],
   HasDownloads |-> [name |-> "github_repo_has_downloads", labels |-> RepoLabels]]

\* NewIssueCollector
IssueDesc ==
  [All |-> [name |-> "github_issues_all",
            labels |-> <<"id", "status", "locked", "title", "body", "user",
                          "author_association", "label", "num_comments", "created_at",
                          "updated_at", "url", "html_url", "reactions_total",
                          "reactions_plus_one", "reactions_minus_one", "assignee">>]]

\* NewPullRequestCollector
PullRequestDesc ==
  [All |-> [name |-> "github_pull_requests_all",
            labels |-> <<"number", "state", "title", "body", "created_at", "labels", "user",
                          "merged", "comments", "commits", "additions", "deletions",
                          "changed_files", "html_url", "review_comments", "assignee",
                          "assignees", "author_association", "requested_reviewers">>]]

\* Metrics(): the list of descriptors the collector returns
Metrics(k) ==
  CASE k = "repo" ->
         <<RepoDesc.All, RepoDesc.Forked, RepoDesc.Forks, RepoDesc.Network,
           RepoDesc.Issues, RepoDesc.Stargazers, RepoDesc.Subscribers,
           RepoDesc.Watchers, RepoDesc.Size, RepoDesc.AllowRebaseMerge,
           RepoDesc.AllowSquashMerge, RepoDesc.AllowMergeCommit, RepoDesc.Archived,
           RepoDesc.Private, RepoDesc.HasIssues, RepoDesc.HasWiki,
           RepoDesc.HasPages, RepoDesc.HasProjects, RepoDesc.HasDownloads,
           RepoDesc.Pushed, RepoDesc.Created, RepoDesc.Updated>>
    [] k = "issue" -> <<IssueDesc.All>>
    [] k = "pull_request" -> <<PullRequestDesc.All>>

Describe_NoAll(k) == Tail(Metrics(k))

\* Describe(ch): the descriptors sent to ch, in the order of the sends
Describe(k) ==
  CASE k = "repo" ->
         <<RepoDesc.All, RepoDesc.Forked, RepoDesc.Forks, RepoDesc.Network,
           RepoDesc.Issues, RepoDesc.Stargazers, RepoDesc.Subscribers,
           RepoDesc.Watchers, RepoDesc.Size, RepoDesc.AllowRebaseMerge,
           RepoDesc.AllowSquashMerge, RepoDesc.AllowMergeCommit, RepoDesc.Archived,
           RepoDesc.Private, RepoDesc.HasIssues, RepoDesc.HasWiki,
           RepoDesc.HasPages, RepoDesc.HasProjects, RepoDesc.HasDownloads,
           RepoDesc.Pushed, RepoDesc.Created, RepoDesc.Updated>>
    [] k = "issue" -> <<IssueDesc.All>>
    [] k = "pull_request" -> <<PullRequestDesc.All>>

(***************************************************************************)
(* Flattening of optional fields.                                          *)
(***************************************************************************)
string_or_empty(ptr) == IF IsNil(ptr) THEN Empty ELSE Deref(ptr)

string_int_or_empty_Zero(ptr) == IF IsNil(ptr) THEN Sprint(0) ELSE Sprint(Deref(ptr))

string_int_or_empty(ptr) == IF IsNil(ptr) THEN Empty ELSE Sprint(Deref(ptr))

string_int64_or_empty(ptr) == IF IsNil(ptr) THEN Empty ELSE Sprint(Deref(ptr))

string_time_or_empty(ptr) == IF IsNil(ptr) THEN Empty ELSE TimeString(Deref(ptr))

string_bool_or_empty(ptr) == IF IsNil(ptr) THEN Empty ELSE FormatBool(Deref(ptr))

boolToFloat64(val) == IF val THEN 1 ELSE 0

(***************************************************************************)
(* The result of running a piece of Collect: the samples sent to the       *)
(* channel so far and whether a nil dereference stopped it with a panic.   *)
(***************************************************************************)
Sent(out) == [panic |-> FALSE, out |-> out]
Panicked(out) == [panic |-> TRUE, out |-> out]

\* a; b: b runs only when a did not panic
Then(a, b) == IF a.panic THEN a ELSE [panic |-> b.panic, out |-> a.out \o b.out]

\* prometheus.MustNewConstMetric: panics when the number of label values is not
\* the number of label names of the descriptor
MustNewConstMetric(desc, value, labelValues) ==
  IF Len(labelValues) # Len(desc.labels) THEN Panicked(<<>>)
  ELSE Sent(<<[desc |-> desc.name, value |-> value, labels |-> labelValues]>>)

(***************************************************************************)
(* Repository records (github.Repository), and the loop body of            *)
(* RepoCollector.Collect for one record.                                   *)
(***************************************************************************)
RepoNil ==
  [FullName |-> None, Name |-> None, Fork |-> None, ForksCount |-> None,
   NetworkCount |-> None, OpenIssuesCount |-> None, StargazersCount |-> None,
   SubscribersCount |-> None, WatchersCount |-> None, Size |-> None,
   AllowRebaseMerge |-> None, AllowSquashMerge |-> None, AllowMergeCommit |-> None,
   Archived |-> None, Private |-> None, HasIssues |-> None, HasWiki |-> None,
   HasPages |-> None, HasProjects |-> None, HasDownloads |-> None,
   PushedAt |-> None, CreatedAt |-> None, UpdatedAt |-> None]

GuardedCount_Always(desc, ptr, labels) ==
  MustNewConstMetric(desc, IF IsNil(ptr) THEN 0 ELSE Deref(ptr), labels)

\* a metric guarded by the presence of its source field
GuardedCount(desc, ptr, labels) ==
  IF ~IsNil(ptr) THEN MustNewConstMetric(desc, Deref(ptr), labels) ELSE Sent(<<>>)

GuardedFlag(desc, ptr, labels) ==
  IF ~IsNil(ptr) THEN MustNewConstMetric(desc, boolToFloat64(Deref(ptr)), labels) ELSE Sent(<<>>)

\* forks, networks, ... := "": the label stays empty unless the field is present
CountLabel(ptr) == IF ~IsNil(ptr) THEN string_int_or_empty(ptr) ELSE Empty

\* record.PushedAt.Unix() and its siblings: the timestamp is dereferenced unguarded
UnguardedTime(desc, ptr, labels) ==
  IF IsNil(ptr) THEN Panicked(<<>>) ELSE MustNewConstMetric(desc, Deref(ptr), labels)

\* the filter at the head of the loop body: glob.Glob(name, *record.FullName)
GlobFilter_None(name, fullName) == TRUE

\* the upper-case letter of the names used here, folded
ToLower(s) == [j \in 1..Len(s) |-> IF s[j] = "A" THEN "a" ELSE s[j]]

GlobFilter_Fold(name, fullName) == Glob(ToLower(name), ToLower(fullName))

GlobFilter(name, fullName) == Glob(name, fullName)

\* the metrics of one reported record, in the order Collect sends them
RepoMetrics(owner, i, record) ==
  LET labels == <<owner, Deref(record.Name)>>
      D == RepoDesc
      steps ==
        <<GuardedFlag(D.Forked, record.Fork, labels),
          GuardedCount(D.Forks, record.ForksCount, labels),
          GuardedCount(D.Network, record.NetworkCount, labels),
          GuardedCount(D.Issues, record.OpenIssuesCount, labels),
          GuardedCount(D.Stargazers, record.StargazersCount, labels),
          GuardedCount(D.Subscribers, record.SubscribersCount, labels),
          GuardedCount(D.Watchers, record.WatchersCount, labels),
          GuardedCount(D.Size, record.Size, labels),
          GuardedFlag(D.AllowRebaseMerge, record.AllowRebaseMerge, labels),
          GuardedFlag(D.AllowSquashMerge, record.AllowSquashMerge, labels),
          GuardedFlag(D.AllowMergeCommit, record.AllowMergeCommit, labels),
          GuardedFlag(D.Archived, record.Archived, labels),
          GuardedFlag(D.Private, record.Private, labels),
          GuardedFlag(D.HasIssues, record.HasIssues, labels),
          GuardedFlag(D.HasWiki, record.HasWiki, labels),
          GuardedFlag(D.HasPages, record.HasPages, labels),
          GuardedFlag(D.HasProjects, record.HasProjects, labels),
          GuardedFlag(D.HasDownloads, record.HasDownloads, labels),
          UnguardedTime(D.Pushed, record.PushedAt, labels),
          UnguardedTime(D.Created, record.CreatedAt, labels),
          UnguardedTime(D.Updated, record.UpdatedAt, labels),
          MustNewConstMetric(D.All, i,
            <<CountLabel(record.ForksCount),
              CountLabel(record.NetworkCount),
              CountLabel(record.OpenIssuesCount),
              CountLabel(record.StargazersCount),
              CountLabel(record.SubscribersCount),
              CountLabel(record.WatchersCount),
              CountLabel(record.Size)>>)>>
      run[k \in 0..Len(steps)] == IF k = 0 THEN Sent(<<>>) ELSE Then(run[k - 1], steps[k])
  IN run[Len(steps)]

\* the loop body for record i (0-based) of the resolved records of entry name
RepoRecord(name, owner, i, record) ==
  IF IsNil(record.FullName) THEN Panicked(<<>>)
  ELSE IF ~GlobFilter(name, Deref(record.FullName)) THEN Sent(<<>>)
  ELSE IF IsNil(record.Name) THEN Panicked(<<>>)
  ELSE RepoMetrics(owner, i, record)

(***************************************************************************)
(* Issue records (github.Issue) and the loop body of                       *)
(* IssueCollector.Collect for one record.                                  *)
(***************************************************************************)
IssueNil ==
  [ID |-> None, State |-> None, Locked |-> None, Title |-> None, Body |-> None,
   User |-> None, AuthorAssociation |-> None, Labels |-> <<>>, Comments |-> None,
   CreatedAt |-> None, UpdatedAt |-> None, URL |-> None, HTMLURL |-> None,
   Reactions |-> None, Assignee |-> None]

\* for _, git_label := range record.Labels: *git_label.Name of every non-nil label
LabelLoopPanics(labels) ==
  \E j \in 1..Len(labels) : ~IsNil(labels[j]) /\ IsNil(Deref(labels[j]).Name)

\* record.Labels[0].Name when there is a label
FirstLabelPanics(labels) == Len(labels) > 0 /\ IsNil(labels[1])

FirstLabel_Last(labels) ==
  IF Len(labels) > 0 THEN string_or_empty(Deref(labels[Len(labels)]).Name) ELSE Empty

\* label = string_or_empty(record.Labels[0].Name) when len(record.Labels) > 0
FirstLabel(labels) ==
  IF Len(labels) > 0 THEN string_or_empty(Deref(labels[1]).Name) ELSE Empty

LoginOf(user) == IF ~IsNil(user) THEN string_or_empty(Deref(user).Login) ELSE Empty

LockedLabel(ptr) ==
  IF IsNil(ptr) THEN Empty
  ELSE IF ~Deref(ptr) THEN <<"f", "a", "l", "s", "e">>
  ELSE <<"t", "r", "u", "e">>

\* the loop body for a non-nil issue r at position i (0-based) of the page
IssueBody(i, r) ==
       IF LabelLoopPanics(r.Labels) THEN Panicked(<<>>)
          ELSE IF FirstLabelPanics(r.Labels) THEN Panicked(<<>>)
          ELSE IF IsNil(r.Reactions) THEN Panicked(<<>>)
          ELSE MustNewConstMetric(IssueDesc.All, i,
                 <<string_int64_or_empty(r.ID),
                   string_or_empty(r.State),
                   LockedLabel(r.Locked),
                   string_or_empty(r.Title),
                   string_or_empty(r.Body),
                   LoginOf(r.User),
                   string_or_empty(r.AuthorAssociation),
                   FirstLabel(r.Labels),
                   string_int_or_empty(r.Comments),
                   string_time_or_empty(r.CreatedAt),
                   string_time_or_empty(r.UpdatedAt),
                   string_or_empty(r.URL),
                   string_or_empty(r.HTMLURL),
                   string_int_or_empty(Deref(r.Reactions).TotalCount),
                   string_int_or_empty(Deref(r.Reactions).PlusOne),
                   string_int_or_empty(Deref(r.Reactions).MinusOne),
                   LoginOf(r.Assignee)>>)

IssueRecord_OneBased(i, record) ==
  IF IsNil(record) THEN Sent(<<>>) ELSE IssueBody(i + 1, Deref(record))

\* for i, record := range issues, with the nil records skipped
IssueRecord(i, record) ==
  IF IsNil(record) THEN Sent(<<>>) ELSE IssueBody(i, Deref(record))

(***************************************************************************)
(* Pull-request records (github.PullRequest) and the loop body of          *)
(* PullRequestCollector.Collect for one record.                            *)
(***************************************************************************)
PullRequestNil ==
  [Number |-> None, State |-> None, Title |-> None, Body |-> None, CreatedAt |-> None,
   Labels |-> <<>>, User |-> None, Merged |-> None, Comments |-> None, Commits |-> None,
   Additions |-> None, Deletions |-> None, ChangedFiles |-> None, HTMLURL |-> None,
   ReviewComments |-> None, Assignee |-> None, AuthorAssociation |-> None,
   Assignees |-> <<>>, RequestedReviewers |-> <<>>]

\* the loop body for a non-nil pull request r at position i (0-based) of the page
PullRequestBody(i, r) ==
       IF LabelLoopPanics(r.Labels) THEN Panicked(<<>>)
          ELSE IF FirstLabelPanics(r.Labels) THEN Panicked(<<>>)
          ELSE MustNewConstMetric(PullRequestDesc.All, i,
                 <<IF ~IsNil(r.Number) THEN string_int_or_empty(r.Number) ELSE Empty,
                   IF ~IsNil(r.State) THEN string_or_empty(r.State) ELSE Empty,
                   IF ~IsNil(r.Title) THEN string_or_empty(r.Title) ELSE Empty,
                   string_or_empty(r.Body),
                   string_time_or_empty(r.CreatedAt),
                   FirstLabel(r.Labels),
                   LoginOf(r.User),
                   IF ~IsNil(r.Merged) THEN string_bool_or_empty(r.Merged) ELSE Empty,
                   string_int_or_empty(r.Comments),
                   string_int_or_empty(r.Commits),
                   string_int_or_empty(r.Additions),
                   string_int_or_empty(r.Deletions),
                   string_int_or_empty(r.ChangedFiles),
                   string_or_empty(r.HTMLURL),
                   string_int_or_empty(r.ReviewComments),
                   LoginOf(r.Assignee),
                   Empty,
                   string_or_empty(r.AuthorAssociation),
                   Empty>>)

\* for i, record := range pullRequests, with the nil records skipped
PullRequestRecord(i, record) ==
  IF IsNil(record) THEN Sent(<<>>) ELSE PullRequestBody(i, Deref(record))

(***************************************************************************)
(* The environment: the configured entries and what the upstream API may   *)
(* answer. Every call may fail; a successful call returns one of the pages *)
(* below.                                                                  *)
(***************************************************************************)
Text(c) == <<c>>

\* Repos.Value(): the entries a target configuration may list
Entries ==
  {FullNameOf(Acme, StarService),                            \* "acme/*-service"
   FullNameOf(Acme, Web),                                    \* "acme/web"
   <<"j", "u", "s", "t", "a", "n", "a", "m", "e">>,          \* "justaname"
   <<"a", "/", "b", "/", "c">>}                              \* "a/b/c"

Configs == UNION {[1..n -> Entries] : n \in 1..MaxTargets}

\* as returned by a direct get: every field present
RepoAuth ==
  [FullName |-> Some(FullNameOf(Acme, AuthService)), Name |-> Some(AuthService),
   Fork |-> Some(FALSE), ForksCount |-> Some(12), NetworkCount |-> Some(12),
   OpenIssuesCount |-> Some(3), StargazersCount |-> Some(7), SubscribersCount |-> Some(2),
   WatchersCount |-> Some(7), Size |-> Some(105),
   AllowRebaseMerge |-> Some(TRUE), AllowSquashMerge |-> Some(FALSE),
   AllowMergeCommit |-> Some(TRUE), Archived |-> Some(FALSE), Private |-> Some(FALSE),
   HasIssues |-> Some(TRUE), HasWiki |-> Some(FALSE), HasPages |-> Some(FALSE),
   HasProjects |-> Some(TRUE), HasDownloads |-> Some(TRUE),
   PushedAt |-> Some(30), CreatedAt |-> Some(10), UpdatedAt |-> Some(20)]

RepoWeb ==
  [RepoAuth EXCEPT !.FullName = Some(FullNameOf(Acme, Web)), !.Name = Some(Web),
                   !.ForksCount = Some(0)]

SearchView_Full(repo) == repo

\* a repository as a search returns it: the upstream leaves out the network and
\* the subscriber count and the merge-method flags
SearchView(repo) ==
  [repo EXCEPT !.NetworkCount = None, !.SubscribersCount = None,
               !.AllowRebaseMerge = None, !.AllowSquashMerge = None,
               !.AllowMergeCommit = None]

\* only the names and the timestamps present
RepoPay ==
  [RepoNil EXCEPT !.FullName = Some(FullNameOf(Acme, PayService)), !.Name = Some(PayService),
                  !.PushedAt = Some(31), !.CreatedAt = Some(11), !.UpdatedAt = Some(21)]

\* another repository of the owner, as bare as RepoPay
RepoMail ==
  [RepoPay EXCEPT !.FullName = Some(FullNameOf(Acme, MailService)),
                  !.Name = Some(MailService),
                  !.PushedAt = Some(32), !.CreatedAt = Some(12), !.UpdatedAt = Some(22)]

RepoNoName == [RepoPay EXCEPT !.Name = None]

RepoNoPushed == [RepoAuth EXCEPT !.PushedAt = None]

\* the repository "acme/web" under the spelling "Acme/web" of its owner
RepoWebCased ==
  [RepoWeb EXCEPT !.FullName = Some(FullNameOf(<<"A", "c", "m", "e">>, Web))]

RepoUniverse == {RepoAuth, RepoWeb, RepoWebCased, RepoNil, RepoNoName, RepoNoPushed}

\* Repositories.Get: an error, or a repository
GetResponses ==
  {[err |-> TRUE, repo |-> RepoNil]} \cup {[err |-> FALSE, repo |-> r] : r \in RepoUniverse}

\* the pages of results the upstream may answer a search with: the first page,
\* and the pages after it
RepoPages(page) ==
  IF page = 0
  THEN {<<>>, <<SearchView(RepoAuth), SearchView(RepoWeb)>>, <<SearchView(RepoMail)>>}
  ELSE {<<>>, <<SearchView(RepoPay)>>}

\* resp.NextPage when there is a further page: the page after the one asked for,
\* page 0 being the first page
NextPageAfter(page) == IF page = 0 THEN 2 ELSE page + 1

\* Search.Repositories for a page: an error, or a page of results and the number
\* of the next page, 0 when there is none; more is TRUE while the upstream may
\* still announce a further page
SearchResponses(page, more) ==
  {[err |-> TRUE, repos |-> <<>>, NextPage |-> 0]}
    \cup {[err |-> FALSE, repos |-> pg, NextPage |-> 0] : pg \in RepoPages(page)}
    \cup {[err |-> FALSE, repos |-> pg, NextPage |-> NextPageAfter(page)] :
            pg \in IF more THEN RepoPages(page) ELSE {}}

Label(name) == Some([Name |-> name])
User(login) == Some([Login |-> login])

IssueFull ==
  [ID |-> Some(101), State |-> Some(Text("o")), Locked |-> Some(FALSE),
   Title |-> Some(Text("t")), Body |-> Some(Text("b")), User |-> User(Some(Text("u"))),
   AuthorAssociation |-> Some(Text("m")),
   Labels |-> <<Label(Some(Text("x"))), None, Label(Some(Text("y")))>>,
   Comments |-> Some(4), CreatedAt |-> Some(10), UpdatedAt |-> Some(20),
   URL |-> Some(Text("r")), HTMLURL |-> Some(Text("h")),
   Reactions |-> Some([TotalCount |-> Some(3), PlusOne |-> Some(2), MinusOne |-> Some(1)]),
   Assignee |-> User(Some(Text("a")))]

\* every optional field absent, the reactions object present but empty
IssueBare ==
  [IssueNil EXCEPT !.Reactions = Some([TotalCount |-> None, PlusOne |-> None,
                                        MinusOne |-> None]),
                   !.User = User(None), !.Locked = Some(TRUE)]

IssueNoReactions == [IssueFull EXCEPT !.Reactions = None]

IssueUnnamedLabel == [IssueFull EXCEPT !.Labels = <<Label(Some(Text("x"))), Label(None)>>]

IssueNilLabel == [IssueFull EXCEPT !.Labels = <<None, Label(Some(Text("y")))>>]

IssuePages ==
  {<<>>, <<Some(IssueFull), None, Some(IssueBare)>>,
   <<Some(IssueBare), Some(IssueNoReactions)>>, <<Some(IssueUnnamedLabel)>>,
   <<Some(IssueNilLabel)>>}

\* Issues.ListByRepo: an error, or a page of issues
IssueResponses ==
  {[err |-> TRUE, list |-> <<>>]} \cup {[err |-> FALSE, list |-> pg] : pg \in IssuePages}

PullRequestFull ==
  [Number |-> Some(17), State |-> Some(Text("o")), Title |-> Some(Text("t")),
   Body |-> Some(Text("b")), CreatedAt |-> Some(10),
   Labels |-> <<Label(Some(Text("x"))), None, Label(Some(Text("y")))>>,
   User |-> User(Some(Text("u"))), Merged |-> Some(TRUE), Comments |-> Some(4),
   Commits |-> Some(2), Additions |-> Some(120), Deletions |-> Some(0),
   ChangedFiles |-> Some(3), HTMLURL |-> Some(Text("h")), ReviewComments |-> Some(1),
   Assignee |-> User(Some(Text("a"))), AuthorAssociation |-> Some(Text("m")),
   Assignees |-> <<User(Some(Text("a"))), User(Some(Text("c")))>>,
   RequestedReviewers |-> <<User(Some(Text("v")))>>]

PullRequestOpen == [PullRequestNil EXCEPT !.Merged = Some(FALSE), !.Assignee = User(None)]

PullRequestUnnamedLabel == [PullRequestFull EXCEPT !.Labels = <<Label(None)>>]

PullRequestNilLabel == [PullRequestFull EXCEPT !.Labels = <<None>>]

PullRequestPages ==
  {<<>>, <<Some(PullRequestFull), None, Some(PullRequestNil)>>,
   <<Some(PullRequestOpen), Some(PullRequestUnnamedLabel)>>, <<Some(PullRequestNilLabel)>>}

\* PullRequests.List: an error, or a page of pull requests
PullRequestResponses ==
  {[err |-> TRUE, list |-> <<>>]}
    \cup {[err |-> FALSE, list |-> pg] : pg \in PullRequestPages}

(***************************************************************************)
(* State.                                                                  *)
(*   config    c.config.Repos.Value(), the same for the three collectors   *)
(*   failures  the failure CounterVec handed to the three collectors: the  *)
(*             value of each child, by label value                         *)
(*   duration  the duration HistogramVec handed to them: the number of     *)
(*             observations of each child, by label value                  *)
(*   polls     the number of polls started                                 *)
(*   kind      the collector whose Collect is running                      *)
(*   pc        "idle"; "loop" at the head of the loop over the entries;    *)
(*             "search" inside the pagination loop of the resolver;        *)
(*             "records" in the loop over the records; "done" when Collect *)
(*             returned; "panic" when it died of a nil dereference         *)
(*   idx       position in config of the next entry of the loop (1-based)  *)
(*   records   the records fetched for the entry                           *)
(*   ri        position in records of the next record of the loop          *)
(*             (1-based)                                                   *)
(*   optsPage  opts.Page of the search, while the resolver runs            *)
(*   repos     the search results accumulated so far, while the resolver   *)
(*             runs                                                        *)
(* and, to state the properties, what the poll does for the entry it is at *)
(* (the entry at position Len(trace)), forgotten when the loop over its    *)
(* records is left:                                                        *)
(*   sent      the samples sent to the channel for the entry, each with    *)
(*             the position r of its record                                *)
(*   calls     the API calls made for the entry, each with its answer      *)
(*             and the context it was made with (ctx, err, NextPage,       *)
(*             result); the calls of an entry that failed                  *)
(*             stay until the poll makes its next call                     *)
(*   trace     how each entry reached so far ended: "malformed", "error",  *)
(*             "ok", or "search" while its search is going on              *)
(*   defers    the deferred cancel functions of the invocation of Collect:  *)
(*             pending, the contexts whose cancel is deferred and has not  *)
(*             run, in the order of the defer statements; ran, the         *)
(*             contexts whose cancel ran, in the order it ran              *)
(* and, for two polls of one collector that overlap (see further down):    *)
(*   overlap   the locals of each of the two invocations of Collect and    *)
(*             the channel each was handed; empty when polls do not        *)
(*             overlap                                                     *)
(***************************************************************************)
VARIABLES config, failures, duration, polls, kind, pc, idx, records, ri, optsPage, repos,
          sent, calls, trace, overlap, defers

vars == <<config, failures, duration, polls, kind, pc, idx, records, ri, optsPage, repos,
          sent, calls, trace, overlap, defers>>

\* no defer statement executed yet
NoDefers == [pending |-> <<>>, ran |-> <<>>]

Reverse(q) == [j \in 1..Len(q) |-> q[Len(q) + 1 - j]]

Defer_CancelNow(d, ctx) == [d EXCEPT !.ran = Append(@, ctx)]

\* defer cancel()
Defer(d, ctx) == [d EXCEPT !.pending = Append(@, ctx)]

\* Collect is left, by return or by panic: the deferred calls run, last in first
\* out
RunDeferred(d) == [pending |-> <<>>, ran |-> d.ran \o Reverse(d.pending)]

\* no overlapping polls
NoOverlap == [thr |-> <<>>, ch |-> <<>>, down |-> FALSE]

Kinds == {"repo", "issue", "pull_request"}

\* the label value each collector passes to failures.WithLabelValues
FailureLabel(k) ==
  CASE k = "repo" -> "repo"
    [] k = "issue" -> "repo"
    [] k = "pull_request" -> "repo"

\* a vector without children
NoChildren == [label \in {} |-> 0]

\* WithLabelValues(label).Inc() and WithLabelValues(label).Observe(v): the child
\* is created on first use
Inc(vec, label) ==
  IF label \in DOMAIN vec THEN [vec EXCEPT ![label] = @ + 1] ELSE vec @@ (label :> 1)

\* WithLabelValues(label).Add(0)
Touch(vec, label) == IF label \in DOMAIN vec THEN vec ELSE vec @@ (label :> 0)

\* the value of a child, 0 when it was never created
Value(vec, label) == IF label \in DOMAIN vec THEN vec[label] ELSE 0

\* len(n) != 2
Malformed_LessThanTwo(n) == Len(n) < 2

Malformed_EmptySegment(n) ==
  IF Len(n) # 2 THEN TRUE ELSE (n[1] = Empty \/ n[2] = Empty)

Malformed(n) == Len(n) # 2

\* strings.Contains(repo, "*")
IsGlob_Always(repo) == TRUE

IsGlob(repo) == Contains(repo, Star)

\* continue: the loop goes on with the next entry
Continue_Return(i) == Len(config) + 1

Continue_Retry(i) == i

Continue(i) == i + 1

\* opts.Page = resp.NextPage
NextOptsPage_Increment(page, resp) == page + 1

NextOptsPage(page, resp) == resp.NextPage

Init ==
  /\ config \in Configs
  /\ failures = Touch(Touch(Touch(NoChildren, FailureLabel("repo")), FailureLabel("issue")),
                      FailureLabel("pull_request"))
  /\ duration = NoChildren
  /\ polls = 0
  /\ kind = "repo"
  /\ pc = "idle"
  /\ idx = 0
  /\ records = <<>>
  /\ ri = 0
  /\ optsPage = 0
  /\ repos = <<>>
  /\ sent = <<>>
  /\ calls = <<>>
  /\ trace = <<>>
  /\ overlap = NoOverlap
  /\ defers = NoDefers

Tag(out, r) == [j \in 1..Len(out) |-> out[j] @@ [r |-> r]]

Name == config[idx]
Segments == Split(Name, Slash)
AtEntry == pc = "loop" /\ idx <= Len(config)

StartPoll_Resume(k) ==
  /\ pc \in {"idle", "done"}
  /\ polls < MaxPolls
  /\ polls' = polls + 1
  /\ kind' = k
  /\ pc' = "loop"
  /\ idx' = IF pc = "done" THEN idx ELSE 1
  /\ UNCHANGED <<defers, overlap, config, failures, duration, records, ri, optsPage, repos, sent, calls,
                 trace>>

\* the registry calls Collect of one of the collectors
StartPoll(k) ==
  /\ pc \in {"idle", "done"}
  /\ polls < MaxPolls
  /\ polls' = polls + 1
  /\ kind' = k
  /\ pc' = "loop"
  /\ idx' = 1
  /\ records' = <<>>
  /\ ri' = 0
  /\ optsPage' = 0
  /\ repos' = <<>>
  /\ sent' = <<>>
  /\ calls' = <<>>
  /\ trace' = <<>>
  /\ defers' = NoDefers
  /\ UNCHANGED <<overlap, config, failures, duration>>

\* c.config.Timeout
Timeout == "c.config.Timeout"

\* context.WithTimeout(parent, timeout): a new context; made names the turn of the
\* loop over the entries that made it
WithTimeout(parent, timeout, made) == [parent |-> parent, timeout |-> timeout, made |-> made]

ContextOf_Poll(i) == WithTimeout("Background", Timeout, 0)

\* ctx, cancel := context.WithTimeout(context.Background(), c.config.Timeout) in
\* turn i of the loop
ContextOf(i) == WithTimeout("Background", Timeout, i)

\* how the entry at position idx ended
Ended(outcome) == trace' = [j \in 1..idx |-> IF j = idx THEN outcome ELSE trace[j]]

Failed_Partial(outcome) ==
  /\ failures' = Inc(failures, FailureLabel(kind))
  /\ Ended(outcome)
  /\ sent' = <<>>
  /\ IF pc = "search"
     THEN idx' = idx /\ pc' = "records" /\ records' = repos /\ ri' = 1
     ELSE idx' = Continue(idx) /\ pc' = "loop" /\ records' = <<>> /\ ri' = 0

Failed_Uncounted(outcome) ==
  /\ failures' = failures
  /\ Ended(outcome)
  /\ idx' = Continue(idx)
  /\ pc' = "loop"
  /\ records' = <<>>
  /\ ri' = 0
  /\ sent' = <<>>

\* the error branches of Collect: count the failure and continue
Failed(outcome) ==
  /\ failures' = Inc(failures, FailureLabel(kind))
  /\ Ended(outcome)
  /\ idx' = Continue(idx)
  /\ pc' = "loop"
  /\ records' = <<>>
  /\ ri' = 0
  /\ sent' = <<>>

\* the fetch succeeded: on to the loop over the records
Fetched(recs) ==
  /\ Ended("ok")
  /\ records' = recs
  /\ ri' = 1
  /\ pc' = "records"
  /\ sent' = <<>>
  /\ UNCHANGED <<failures, idx>>

\* an entry that does not split into two segments
MalformedEntry ==
  /\ AtEntry
  /\ Malformed(Segments)
  /\ Failed("malformed")
  /\ calls' = <<>>
  /\ UNCHANGED <<defers, overlap, config, duration, polls, kind, optsPage, repos>>

Observe_OnSuccess ==
  duration' = IF calls'[Len(calls')].err THEN duration ELSE Inc(duration, "repo")

\* c.duration.WithLabelValues("repo").Observe(...)
Observe == duration' = Inc(duration, "repo")

\* RepoCollector: reposByOwnerAndName without a glob, a direct get
RepoGet ==
  /\ kind = "repo"
  /\ AtEntry
  /\ ~Malformed(Segments)
  /\ ~IsGlob(Segments[2])
  /\ \E resp \in GetResponses :
       /\ calls' = <<[api |-> "Repositories.Get", ctx |-> ContextOf(idx),
                      owner |-> Segments[1], repo |-> Segments[2], page |-> 0,
                      err |-> resp.err, NextPage |-> 0,
                      result |-> IF resp.err THEN <<>> ELSE <<resp.repo>>]>>
       /\ IF resp.err THEN Failed("error") ELSE Fetched(<<resp.repo>>)
  /\ Observe
  /\ defers' = Defer(defers, ContextOf(idx))
  /\ UNCHANGED <<overlap, config, polls, kind, optsPage, repos>>

\* RepoCollector: one turn of the pagination loop of reposByOwnerAndName; the
\* first turn is entered from the head of the loop over the entries
RepoSearch ==
  /\ kind = "repo"
  /\ \/ AtEntry /\ ~Malformed(Segments) /\ IsGlob(Segments[2])
     \/ pc = "search"
  /\ LET first == pc = "loop"
         page == IF first THEN 0 ELSE optsPage
         acc == IF first THEN <<>> ELSE repos
         before == IF first THEN <<>> ELSE calls
         ctx == IF first THEN ContextOf(idx) ELSE calls[Len(calls)].ctx
     IN \E resp \in SearchResponses(page, Len(before) + 1 < MaxSearchPages) :
          /\ calls' = Append(before, [api |-> "Search.Repositories", ctx |-> ctx,
                                      owner |-> Segments[1], repo |-> Empty, page |-> page,
                                      err |-> resp.err, NextPage |-> resp.NextPage,
                                      result |-> resp.repos])
          /\ IF resp.err
             THEN /\ Failed("error")
                  /\ Observe
                  /\ repos' = <<>>
                  /\ optsPage' = 0
             ELSE IF resp.NextPage = 0
             THEN /\ Fetched(acc \o resp.repos)
                  /\ Observe
                  /\ repos' = <<>>
                  /\ optsPage' = 0
             ELSE /\ repos' = acc \o resp.repos
                  /\ optsPage' = NextOptsPage(page, resp)
                  /\ pc' = "search"
                  /\ Ended("search")
                  /\ records' = <<>>
                  /\ ri' = 0
                  /\ sent' = <<>>
                  /\ UNCHANGED <<failures, idx, duration>>
  /\ defers' = IF pc = "loop" THEN Defer(defers, ContextOf(idx)) ELSE defers
  /\ UNCHANGED <<overlap, config, polls, kind>>

\* IssueCollector: Issues.ListByRepo for the entry
IssueList ==
  /\ kind = "issue"
  /\ AtEntry
  /\ ~Malformed(Segments)
  /\ \E resp \in IssueResponses :
       /\ calls' = <<[api |-> "Issues.ListByRepo", ctx |-> ContextOf(idx),
                      owner |-> Segments[1], repo |-> Segments[2], page |-> 0,
                      err |-> resp.err, NextPage |-> 0, result |-> resp.list]>>
       /\ IF resp.err THEN Failed("error") ELSE Fetched(resp.list)
  /\ defers' = Defer(defers, ContextOf(idx))
  /\ UNCHANGED <<overlap, config, duration, polls, kind, optsPage, repos>>

\* PullRequestCollector: PullRequests.List for the entry
PullRequestList ==
  /\ kind = "pull_request"
  /\ AtEntry
  /\ ~Malformed(Segments)
  /\ \E resp \in PullRequestResponses :
       /\ calls' = <<[api |-> "PullRequests.List", ctx |-> ContextOf(idx),
                      owner |-> Segments[1], repo |-> Segments[2], page |-> 0,
                      err |-> resp.err, NextPage |-> 0, result |-> resp.list]>>
       /\ IF resp.err THEN Failed("error") ELSE Fetched(resp.list)
  /\ defers' = Defer(defers, ContextOf(idx))
  /\ UNCHANGED <<overlap, config, duration, polls, kind, optsPage, repos>>

\* the loop body of the collector k for the record at position r of recs
Body(k, name, r, recs) ==
  CASE k = "repo" -> RepoRecord(name, Split(name, Slash)[1], r - 1, recs[r])
    [] k = "issue" -> IssueRecord(r - 1, recs[r])
    [] k = "pull_request" -> PullRequestRecord(r - 1, recs[r])

\* one turn of the loop over the records
NextRecord ==
  /\ pc = "records"
  /\ ri <= Len(records)
  /\ LET res == Body(kind, Name, ri, records)
     IN /\ sent' = sent \o Tag(res.out, ri)
        /\ IF res.panic
           THEN pc' = "panic" /\ ri' = ri /\ defers' = RunDeferred(defers)
           ELSE pc' = "records" /\ ri' = ri + 1 /\ defers' = defers
  /\ UNCHANGED <<overlap, config, failures, duration, polls, kind, idx, records, optsPage, repos,
                 calls, trace>>

EndRecords_Early ==
  /\ pc = "records"
  /\ idx' = idx + 1
  /\ pc' = "loop"
  /\ records' = <<>>
  /\ ri' = 0
  /\ sent' = <<>>
  /\ calls' = <<>>
  /\ UNCHANGED <<defers, overlap, config, failures, duration, polls, kind, optsPage, repos, trace>>

\* the records are exhausted: on to the next entry
EndRecords ==
  /\ pc = "records"
  /\ ri > Len(records)
  /\ idx' = idx + 1
  /\ pc' = "loop"
  /\ records' = <<>>
  /\ ri' = 0
  /\ sent' = <<>>
  /\ calls' = <<>>
  /\ UNCHANGED <<defers, overlap, config, failures, duration, polls, kind, optsPage, repos, trace>>

\* the entries are exhausted: Collect returns
EndPoll ==
  /\ pc = "loop"
  /\ idx > Len(config)
  /\ pc' = "done"
  /\ defers' = RunDeferred(defers)
  /\ UNCHANGED <<overlap, config, failures, duration, polls, kind, idx, records, ri, optsPage, repos,
                 sent, calls, trace>>

Next ==
  \/ \E k \in Kinds : StartPoll(k)
  \/ MalformedEntry
  \/ RepoGet
  \/ RepoSearch
  \/ IssueList
  \/ PullRequestList
  \/ NextRecord
  \/ EndRecords
  \/ EndPoll

Spec == Init /\ [][Next]_vars

\* entries at the edge of the check of the segments: "acme/", "/web", "/", "",
\* and next to them "justaname", "a/b/c", "acme/web" and "acme/*-service"
EdgeEntries ==
  {Acme \o <<Slash>>, <<Slash>> \o Web, <<Slash>>, Empty,
   <<"j", "u", "s", "t", "a", "n", "a", "m", "e">>, <<"a", "/", "b", "/", "c">>,
   FullNameOf(Acme, Web), FullNameOf(Acme, StarService)}

\* the collectors configured with one of these entries
EdgeInit ==
  /\ config \in {<<e>> : e \in EdgeEntries}
  /\ failures = Touch(Touch(Touch(NoChildren, FailureLabel("repo")), FailureLabel("issue")),
                      FailureLabel("pull_request"))
  /\ duration = NoChildren
  /\ polls = 0
  /\ kind = "repo"
  /\ pc = "idle"
  /\ idx = 0
  /\ records = <<>>
  /\ ri = 0
  /\ optsPage = 0
  /\ repos = <<>>
  /\ sent = <<>>
  /\ calls = <<>>
  /\ trace = <<>>
  /\ overlap = NoOverlap
  /\ defers = NoDefers

EdgeSpec == EdgeInit /\ [][Next]_vars

\* the resolver's pagination goes on as long as the program runs
FairSpec == Spec /\ WF_vars(RepoSearch)

(***************************************************************************)
(* Vocabulary of the properties, independent of the operators above.       *)
(***************************************************************************)
RECURSIVE SumOver(_, _)
SumOver(vec, keys) ==
  IF keys = {} THEN 0
  ELSE LET k == CHOOSE x \in keys : TRUE IN vec[k] + SumOver(vec, keys \ {k})

\* the failures counted so far, whatever their label
FailTotal == SumOver(failures, DOMAIN failures)

SlashCount(s) == Cardinality({i \in 1..Len(s) : s[i] = "/"})
TwoSegments(s) == SlashCount(s) = 1
OwnerPart(s) == SubSeq(s, 1, (CHOOSE i \in 1..Len(s) : s[i] = "/") - 1)
NamePart(s) == SubSeq(s, (CHOOSE i \in 1..Len(s) : s[i] = "/") + 1, Len(s))
HasStar(s) == \E i \in 1..Len(s) : s[i] = "*"

\* anchored, case-sensitive glob match, "*" standing for any run of characters
RECURSIVE Matches(_, _)
Matches(p, s) ==
  IF p = <<>> THEN s = <<>>
  ELSE IF Head(p) = "*"
       THEN \E k \in 0..Len(s) : Matches(Tail(p), SubSeq(s, k + 1, Len(s)))
       ELSE s # <<>> /\ Head(s) = Head(p) /\ Matches(Tail(p), Tail(s))

\* the entry the poll reached last: records, sent and calls are about it
Cur == Len(trace)

\* the poll is at the head of the loop with an entry left to deal with
EntryLeft == pc = "loop" /\ idx <= Len(config)

\* the record at position r of the entry has been through the loop body
Processed(r) == r < ri

\* the loop over the records of the entry is about to be left
Through == pc = "records" /\ ri > Len(records)

\* the poll is in the loop over the records of the entry
InRecords == pc \in {"records", "panic"}

\* an earlier entry of the poll ended as an error
ErrorBefore == \E t \in 1..(Cur - 1) : trace[t] = "error"

AllName(k) ==
  CASE k = "repo" -> "github_repo_all"
    [] k = "issue" -> "github_issues_all"
    [] k = "pull_request" -> "github_pull_requests_all"

\* the record at position r of the entry is one the collector reports on
Reportable(r) ==
  IF kind = "repo"
  THEN records[r].FullName # <<>> /\ Matches(config[Cur], records[r].FullName[1])
  ELSE records[r] # <<>>

\* the combined sample of the record at position r of the entry was sent
HasAll(r) == \E j \in 1..Len(sent) : sent[j].r = r /\ sent[j].desc = AllName(kind)

\* the poll moves through the entries one at a time
OneAtATime == idx' = idx \/ idx' = idx + 1 \/ (pc \in {"idle", "done"} /\ idx' = 1)

(***************************************************************************)
(* C1: an entry that does not split on "/" into exactly two segments costs *)
(* one poll exactly one failure, no API call and no sample: the step that  *)
(* deals with it adds one to the failure counter, makes no call, sends no  *)
(* sample and moves on to the next entry, and the entries of a poll that   *)
(* ended as malformed are exactly those without exactly one "/".           *)
(***************************************************************************)
C1_MalformedStep ==
  (EntryLeft /\ ~TwoSegments(config[idx]))
    => /\ FailTotal' = FailTotal + 1
       /\ calls' = <<>>
       /\ sent' = <<>>
       /\ records' = <<>>
       /\ idx' = idx + 1
       /\ pc' = "loop"

C1_MalformedQuiet ==
  /\ \A t \in 1..Cur : ~TwoSegments(config[t]) <=> trace[t] = "malformed"
  /\ (Cur > 0 /\ ~TwoSegments(config[Cur])) =>
       (calls = <<>> /\ sent = <<>> /\ records = <<>> /\ idx = Cur + 1)

C1_Malformed == []C1_MalformedQuiet /\ [][C1_MalformedStep]_vars

C1_Witness ==
  /\ pc = "done"
  /\ Len(config) = 2
  /\ config[1] = <<"j", "u", "s", "t", "a", "n", "a", "m", "e">>
  /\ config[2] = <<"a", "/", "b", "/", "c">>
  /\ kind = "pull_request"
  /\ FailTotal = 2
  /\ calls = <<>>

(***************************************************************************)
(* C2: when the API call for an entry returns an error, the collector      *)
(* counts one failure, sends no sample for the entry and goes on with the  *)
(* next entry; the poll goes through the entries one at a time to the end  *)
(* of the configuration, and an entry after the failed one whose call      *)
(* succeeded has the combined sample of every record it reports on when    *)
(* the poll leaves the loop over its records.                              *)
(***************************************************************************)
C2_ErrorStep ==
  /\ OneAtATime
  /\ (((EntryLeft /\ TwoSegments(config[idx])) \/ pc = "search")
        /\ Len(calls') > 0 /\ calls'[Len(calls')].err)
       => /\ FailTotal' = FailTotal + 1
          /\ sent' = <<>>
          /\ idx' = idx + 1
          /\ pc' = "loop"
          /\ trace'[idx] = "error"

C2_LaterTargets ==
  /\ (Cur > 0 /\ trace[Cur] = "error") => (sent = <<>> /\ records = <<>>)
  /\ (ErrorBefore /\ trace[Cur] = "ok" /\ Through) =>
       \A r \in 1..Len(records) : Reportable(r) => HasAll(r)
  /\ pc = "done" => Cur = Len(config)

C2_ErrorSkipsOnlyTarget == []C2_LaterTargets /\ [][C2_ErrorStep]_vars

C2_Witness ==
  /\ Through
  /\ trace = <<"error", "ok">>
  /\ Len(sent) >= 2

(***************************************************************************)
(* C3: whatever optional fields of the returned records are absent,        *)
(* Collect never dies of a nil dereference.                                *)
(***************************************************************************)
C3_NoPanic == pc # "panic"

(***************************************************************************)
(* C4: every combined sample carries as many label values as its           *)
(* descriptor declares names (17 for github_issues_all, 19 for             *)
(* github_pull_requests_all, 7 for github_repo_all), and the label of      *)
(* every optional field that is absent in the record the sample was sent   *)
(* for is the empty string.                                                *)
(***************************************************************************)
AbsentIsEmpty(ptr, label) == ptr = <<>> => label = <<>>

\* a user that is nil or has no login
NoLogin(user) == user = <<>> \/ user[1].Login = <<>>

IssueLabelsOk(rec, l) ==
  /\ Len(l) = 17
  /\ Len(IssueDesc.All.labels) = 17
  /\ AbsentIsEmpty(rec.ID, l[1])
  /\ AbsentIsEmpty(rec.State, l[2])
  /\ AbsentIsEmpty(rec.Locked, l[3])
  /\ AbsentIsEmpty(rec.Title, l[4])
  /\ AbsentIsEmpty(rec.Body, l[5])
  /\ NoLogin(rec.User) => l[6] = <<>>
  /\ AbsentIsEmpty(rec.AuthorAssociation, l[7])
  /\ Len(rec.Labels) = 0 => l[8] = <<>>
  /\ AbsentIsEmpty(rec.Comments, l[9])
  /\ AbsentIsEmpty(rec.CreatedAt, l[10])
  /\ AbsentIsEmpty(rec.UpdatedAt, l[11])
  /\ AbsentIsEmpty(rec.URL, l[12])
  /\ AbsentIsEmpty(rec.HTMLURL, l[13])
  /\ AbsentIsEmpty(rec.Reactions[1].TotalCount, l[14])
  /\ AbsentIsEmpty(rec.Reactions[1].PlusOne, l[15])
  /\ AbsentIsEmpty(rec.Reactions[1].MinusOne, l[16])
  /\ NoLogin(rec.Assignee) => l[17] = <<>>

PullRequestLabelsOk(rec, l) ==
  /\ Len(l) = 19
  /\ Len(PullRequestDesc.All.labels) = 19
  /\ AbsentIsEmpty(rec.Number, l[1])
  /\ AbsentIsEmpty(rec.State, l[2])
  /\ AbsentIsEmpty(rec.Title, l[3])
  /\ AbsentIsEmpty(rec.Body, l[4])
  /\ AbsentIsEmpty(rec.CreatedAt, l[5])
  /\ Len(rec.Labels) = 0 => l[6] = <<>>
  /\ NoLogin(rec.User) => l[7] = <<>>
  /\ AbsentIsEmpty(rec.Merged, l[8])
  /\ AbsentIsEmpty(rec.Comments, l[9])
  /\ AbsentIsEmpty(rec.Commits, l[10])
  /\ AbsentIsEmpty(rec.Additions, l[11])
  /\ AbsentIsEmpty(rec.Deletions, l[12])
  /\ AbsentIsEmpty(rec.ChangedFiles, l[13])
  /\ AbsentIsEmpty(rec.HTMLURL, l[14])
  /\ AbsentIsEmpty(rec.ReviewComments, l[15])
  /\ NoLogin(rec.Assignee) => l[16] = <<>>
  /\ AbsentIsEmpty(rec.AuthorAssociation, l[18])

RepoLabelsOk(rec, l) ==
  /\ Len(l) = 7
  /\ Len(RepoDesc.All.labels) = 7
  /\ AbsentIsEmpty(rec.ForksCount, l[1])
  /\ AbsentIsEmpty(rec.NetworkCount, l[2])
  /\ AbsentIsEmpty(rec.OpenIssuesCount, l[3])
  /\ AbsentIsEmpty(rec.StargazersCount, l[4])
  /\ AbsentIsEmpty(rec.SubscribersCount, l[5])
  /\ AbsentIsEmpty(rec.WatchersCount, l[6])
  /\ AbsentIsEmpty(rec.Size, l[7])

C4_AllLabelsFixedArity ==
  \A j \in 1..Len(sent) :
    LET s == sent[j]
        rec == records[s.r]
    IN /\ s.desc = "github_issues_all" => IssueLabelsOk(rec[1], s.labels)
       /\ s.desc = "github_pull_requests_all" => PullRequestLabelsOk(rec[1], s.labels)
       /\ s.desc = "github_repo_all" => RepoLabelsOk(rec, s.labels)

\* a combined issue sample all of whose seventeen labels but "locked" are empty
C4_Witness ==
  \E j \in 1..Len(sent) :
    /\ sent[j].desc = "github_issues_all"
    /\ records[sent[j].r][1].Comments = <<>>
    /\ \A n \in (1..17) \ {3} : sent[j].labels[n] = <<>>

(***************************************************************************)
(* C5: for an entry owner/pattern whose name contains "*", the records the *)
(* repo collector goes through are the results of all the pages of the     *)
(* search for the owner, in order, and it reports on exactly those whose   *)
(* full name matches the entry as an anchored, case-sensitive glob: with   *)
(* acme/auth-service, acme/web and acme/pay-service found for              *)
(* "acme/*-service", on auth-service and pay-service only.                 *)
(***************************************************************************)
RECURSIVE Concat(_)
Concat(pages) == IF pages = <<>> THEN <<>> ELSE Head(pages) \o Concat(Tail(pages))

Results(cs) == Concat([j \in 1..Len(cs) |-> cs[j].result])

C5_GlobExpansion ==
  (kind = "repo" /\ Cur > 0 /\ TwoSegments(config[Cur]) /\ HasStar(NamePart(config[Cur])))
    => /\ \A j \in 1..Len(calls) :
            /\ calls[j].api = "Search.Repositories"
            /\ calls[j].owner = OwnerPart(config[Cur])
       /\ InRecords =>
            /\ records = Results(calls)
            /\ \A r \in 1..Len(records) :
                 Processed(r) =>
                   /\ Reportable(r) <=> HasAll(r)
                   /\ ~Reportable(r) => \A j \in 1..Len(sent) : sent[j].r # r

\* the example of the specification, found over two pages
C5_Witness ==
  /\ kind = "repo"
  /\ Through
  /\ config = <<FullNameOf(Acme, StarService)>>
  /\ Len(calls) = 2
  /\ Len(records) = 3
  /\ \A r \in 1..3 : records[r].FullName[1] =
                        FullNameOf(Acme, <<AuthService, Web, PayService>>[r])
  /\ {sent[j].labels[2] : j \in {j \in 1..Len(sent) : sent[j].desc # "github_repo_all"}}
       = {AuthService, PayService}
  /\ {sent[j].r : j \in 1..Len(sent)} = {1, 3}

(***************************************************************************)
(* C6: for a well-formed entry whose name contains no "*", the resolver    *)
(* makes one direct get of owner/name and no search; when the get succeeds *)
(* exactly one repository is resolved, when it fails the entry ends as an  *)
(* error with no repository.                                               *)
(***************************************************************************)
C6_DirectStep ==
  (kind = "repo" /\ EntryLeft /\ TwoSegments(config[idx]) /\ ~HasStar(NamePart(config[idx])))
    => /\ Len(calls') = 1
       /\ LET c == calls'[1]
          IN /\ c.api = "Repositories.Get"
             /\ c.owner = OwnerPart(config[idx])
             /\ c.repo = NamePart(config[idx])
             /\ Len(trace') = idx
             /\ c.err => (trace'[idx] = "error" /\ records' = <<>> /\ pc' = "loop")
             /\ ~c.err => (trace'[idx] = "ok" /\ Len(records') = 1
                            /\ records' = c.result /\ pc' = "records")

C6_DirectOnce ==
  (kind = "repo" /\ Cur > 0 /\ TwoSegments(config[Cur]) /\ ~HasStar(NamePart(config[Cur])))
    => /\ trace[Cur] \in {"ok", "error"}
       /\ trace[Cur] = "error" =>
            (Len(calls) = 1 /\ calls[1].api = "Repositories.Get" /\ records = <<>>)
       /\ InRecords =>
            (Len(calls) = 1 /\ calls[1].api = "Repositories.Get" /\ Len(records) = 1)

C6_DirectGet == []C6_DirectOnce /\ [][C6_DirectStep]_vars

C6_Witness ==
  /\ kind = "repo"
  /\ pc = "done"
  /\ config = <<FullNameOf(Acme, Web), FullNameOf(Acme, Web)>>
  /\ trace = <<"ok", "error">>
  /\ Len(calls) = 1
  /\ calls[1].api = "Repositories.Get"

(***************************************************************************)
(* C7: every collector resolves an entry before it lists: each call of the *)
(* issue-list or pull-request-list endpoint comes after a search or a get  *)
(* for the same entry, and the repository name it is given contains no     *)
(* "*".                                                                    *)
(***************************************************************************)
IsListCall(c) == c.api \in {"Issues.ListByRepo", "PullRequests.List"}
IsResolveCall(c) == c.api \in {"Search.Repositories", "Repositories.Get"}

C7_ResolveBeforeList ==
  \A j \in 1..Len(calls) :
    IsListCall(calls[j]) =>
      /\ ~HasStar(calls[j].repo)
      /\ \E i \in 1..(j - 1) : IsResolveCall(calls[i])

(***************************************************************************)
(* C8: failures are counted per collector kind: a failure met by one       *)
(* collector leaves the counts found under the labels of the two other     *)
(* collectors as they were, so the three counts can be told apart.         *)
(***************************************************************************)
C8_CountedPerKind ==
  [][\A k \in Kinds :
       (kind' = k /\ FailTotal' > FailTotal) =>
         \A other \in Kinds \ {k} :
           Value(failures', FailureLabel(other)) = Value(failures, FailureLabel(other))]_vars

(***************************************************************************)
(* C9: the pagination of the glob search terminates. The first request of  *)
(* a resolution asks for page 0 (the first page) and every further request *)
(* for the next-page number of the response before it; the loop is left at *)
(* the first response that is an error or announces no next page, and not  *)
(* before; and with an upstream that stops announcing pages the resolver   *)
(* eventually returns.                                                     *)
(***************************************************************************)
C9_PagesChained ==
  (Len(calls) > 0 /\ calls[1].api = "Search.Repositories") =>
    /\ calls[1].page = 0
    /\ \A j \in 1..(Len(calls) - 1) :
         /\ ~calls[j].err
         /\ calls[j].NextPage # 0
         /\ calls[j + 1].page = calls[j].NextPage
         /\ calls[j + 1].api = "Search.Repositories"
    /\ pc = "search" <=> (~calls[Len(calls)].err /\ calls[Len(calls)].NextPage # 0)

C9_LoopExit ==
  (Len(calls') > 0 /\ calls' # calls /\ calls'[Len(calls')].api = "Search.Repositories")
    => LET c == calls'[Len(calls')]
       IN /\ (c.err \/ c.NextPage = 0) => pc' # "search"
          /\ c.err => (pc' = "loop" /\ records' = <<>>)
          /\ (~c.err /\ c.NextPage # 0) => (pc' = "search" /\ idx' = idx)

C9_PaginationTerminates ==
  /\ []C9_PagesChained
  /\ [][C9_LoopExit]_vars
  /\ (pc = "search") ~> (pc # "search")

\* a resolution that took two pages, the second one asked for by the number the
\* first response announced
C9_Witness ==
  /\ pc = "records"
  /\ Len(calls) = 2
  /\ calls[1].api = "Search.Repositories" /\ calls[1].NextPage = 2
  /\ calls[2].api = "Search.Repositories" /\ calls[2].page = 2 /\ calls[2].NextPage = 0

(***************************************************************************)
(* C10: for an entry whose list call succeeded, the issue and the          *)
(* pull-request collector send one sample per non-nil record the loop has  *)
(* been through, in page order, and the gauge value of the sample is the   *)
(* zero-based position of its record in the page, nil records counted.     *)
(***************************************************************************)
C10_OneSamplePerRecord ==
  (kind \in {"issue", "pull_request"} /\ InRecords) =>
    LET through == {r \in 1..Len(records) : Processed(r) /\ records[r] # <<>>}
    IN /\ Len(sent) = Cardinality(through)
       /\ {sent[j].r : j \in 1..Len(sent)} = through
       /\ \A j \in 1..Len(sent) :
            /\ sent[j].desc = AllName(kind)
            /\ sent[j].value = sent[j].r - 1
            /\ \A i \in 1..(j - 1) : sent[i].r < sent[j].r

\* a page with a nil record in the middle: samples with the values 0 and 2
C10_Witness ==
  /\ kind = "issue"
  /\ Through
  /\ Len(trace) = 1
  /\ records = <<Some(IssueFull), None, Some(IssueBare)>>
  /\ Len(sent) = 2
  /\ sent[1].value = 0
  /\ sent[2].value = 2

(***************************************************************************)
(* C11: for every record the repo collector reports on and is through      *)
(* with, each of the eighteen numeric and flag metrics has a sample if and *)
(* only if its source field is present in the record (one sample, valued   *)
(* by the field: the count itself, 1 or 0 for a flag), and the combined    *)
(* github_repo_all sample is there whatever is absent, with the empty      *)
(* string for each absent count.                                           *)
(***************************************************************************)
CountMetrics ==
  {<<"github_repo_forks", "ForksCount">>, <<"github_repo_network", "NetworkCount">>,
   <<"github_repo_issues", "OpenIssuesCount">>,
   <<"github_repo_stargazers", "StargazersCount">>,
   <<"github_repo_subscribers", "SubscribersCount">>,
   <<"github_repo_watchers", "WatchersCount">>, <<"github_repo_size", "Size">>}

FlagMetrics ==
  {<<"github_repo_forked", "Fork">>,
   <<"github_repo_allow_rebase_merge", "AllowRebaseMerge">>,
   <<"github_repo_allow_squash_merge", "AllowSquashMerge">>,
   <<"github_repo_allow_merge_commit", "AllowMergeCommit">>,
   <<"github_repo_archived", "Archived">>, <<"github_repo_private", "Private">>,
   <<"github_repo_has_issues", "HasIssues">>, <<"github_repo_has_wiki", "HasWiki">>,
   <<"github_repo_has_pages", "HasPages">>, <<"github_repo_has_projects", "HasProjects">>,
   <<"github_repo_has_downloads", "HasDownloads">>}

\* the samples of the metric called name sent for the record at position r
SamplesFor(r, name) == {j \in 1..Len(sent) : sent[j].r = r /\ sent[j].desc = name}

C11_NumericIffPresent ==
  (kind = "repo" /\ InRecords) =>
    \A r \in 1..Len(records) :
      (Processed(r) /\ Reportable(r)) =>
        /\ \A m \in CountMetrics :
             IF records[r][m[2]] = <<>> THEN SamplesFor(r, m[1]) = {}
             ELSE /\ Cardinality(SamplesFor(r, m[1])) = 1
                  /\ \A j \in SamplesFor(r, m[1]) : sent[j].value = records[r][m[2]][1]
        /\ \A m \in FlagMetrics :
             IF records[r][m[2]] = <<>> THEN SamplesFor(r, m[1]) = {}
             ELSE /\ Cardinality(SamplesFor(r, m[1])) = 1
                  /\ \A j \in SamplesFor(r, m[1]) :
                       sent[j].value = IF records[r][m[2]][1] THEN 1 ELSE 0
        /\ Cardinality(SamplesFor(r, "github_repo_all")) = 1
        /\ \A j \in SamplesFor(r, "github_repo_all") :
             /\ records[r].ForksCount = <<>> => sent[j].labels[1] = <<>>
             /\ records[r].NetworkCount = <<>> => sent[j].labels[2] = <<>>
             /\ records[r].OpenIssuesCount = <<>> => sent[j].labels[3] = <<>>
             /\ records[r].StargazersCount = <<>> => sent[j].labels[4] = <<>>
             /\ records[r].SubscribersCount = <<>> => sent[j].labels[5] = <<>>
             /\ records[r].WatchersCount = <<>> => sent[j].labels[6] = <<>>
             /\ records[r].Size = <<>> => sent[j].labels[7] = <<>>

\* a reported repository with the forks count present and the network count and
\* the merge-method flags absent
C11_Witness ==
  /\ kind = "repo"
  /\ Through
  /\ \E r \in 1..Len(records) :
       /\ Reportable(r)
       /\ records[r].ForksCount # <<>> /\ records[r].NetworkCount = <<>>
       /\ records[r].AllowSquashMerge = <<>> /\ records[r].Archived # <<>>
       /\ SamplesFor(r, "github_repo_forks") # {}
       /\ SamplesFor(r, "github_repo_network") = {}
       /\ SamplesFor(r, "github_repo_all") # {}

(***************************************************************************)
(* C12: no retry within a poll. Only the last call made for a target may   *)
(* have failed, the issue and the pull-request collector make at most one  *)
(* call for a target, every call is made for the target the poll is at,    *)
(* and the step in which a call fails takes the poll to the next target,   *)
(* from where it never comes back: a failed target is called again by a    *)
(* later poll only.                                                        *)
(***************************************************************************)
\* the step makes an API call for the entry at idx
CallStep == (EntryLeft /\ TwoSegments(config[idx])) \/ pc = "search"

C12_OneAttempt ==
  /\ \A j \in 1..(Len(calls) - 1) : ~calls[j].err
  /\ kind \in {"issue", "pull_request"} => Len(calls) <= 1

C12_NoRetryStep ==
  /\ OneAtATime
  /\ CallStep =>
       /\ Len(calls') > 0
       /\ calls'[Len(calls')].owner = OwnerPart(config[idx])
       /\ calls'[Len(calls')].err => (idx' = idx + 1 /\ pc' = "loop")
  /\ ~CallStep => (calls' = calls \/ calls' = <<>>)

C12_NoRetry == []C12_OneAttempt /\ [][C12_NoRetryStep]_vars

\* the only target failed in the first poll and is called, and fails, again in the
\* second
C12_Witness ==
  /\ polls = 2
  /\ kind = "issue"
  /\ config = <<FullNameOf(Acme, Web)>>
  /\ trace = <<"error">>
  /\ Len(calls) = 1
  /\ FailTotal = 2

(***************************************************************************)
(* C13: the timeout is per target. Every call is made with a context that  *)
(* was derived from the background context with the configured timeout in  *)
(* the turn of the loop that deals with the call's target, so no target    *)
(* inherits the deadline of an earlier one; all the calls made for one     *)
(* target, every search page included, are made with that one context; and *)
(* the first call for a target is made with a context no call before it    *)
(* was made with.                                                          *)
(***************************************************************************)
C13_OwnContext ==
  \A j \in 1..Len(calls) :
    /\ calls[j].ctx.parent = "Background"
    /\ calls[j].ctx.timeout = "c.config.Timeout"
    /\ calls[j].ctx.made = Cur
    /\ calls[j].ctx = calls[1].ctx

C13_FreshStep ==
  (EntryLeft /\ TwoSegments(config[idx])) =>
    /\ Len(calls') = 1
    /\ calls'[1].ctx.made = idx
    /\ \A j \in 1..Len(calls) : calls'[1].ctx # calls[j].ctx

C13_TimeoutPerTarget == []C13_OwnContext /\ [][C13_FreshStep]_vars

\* the second target of a poll, resolved over two search pages, after a first
\* target that made a call of its own
C13_Witness ==
  /\ Cur = 2
  /\ trace[1] \in {"ok", "error"}
  /\ Len(calls) = 2
  /\ calls[2].ctx = calls[1].ctx
  /\ calls[1].ctx.made = 2

(***************************************************************************)
(* C14: a repository reported for an entry with a glob has no sample for   *)
(* the subscribers, the network, allow_squash_merge, allow_rebase_merge or *)
(* allow_merge_commit; a repository reported for an entry that names it    *)
(* has each of them that the answer to the get carries; and each of the    *)
(* thirteen other numeric and flag metrics has its sample in both cases    *)
(* when its source field is present.                                       *)
(***************************************************************************)
SearchLess ==
  {<<"github_repo_subscribers", "SubscribersCount">>,
   <<"github_repo_network", "NetworkCount">>,
   <<"github_repo_allow_squash_merge", "AllowSquashMerge">>,
   <<"github_repo_allow_rebase_merge", "AllowRebaseMerge">>,
   <<"github_repo_allow_merge_commit", "AllowMergeCommit">>}

C14_WitnessExact ==
  /\ kind = "repo"
  /\ Through
  /\ config[Cur] = FullNameOf(Acme, Web)
  /\ Reportable(1)
  /\ \A m \in SearchLess : SamplesFor(1, m[1]) # {}
  /\ SamplesFor(1, "github_repo_forks") # {}

TrueText == <<"t", "r", "u", "e">>
FalseText == <<"f", "a", "l", "s", "e">>
Literal(b) == IF b THEN TrueText ELSE FalseText

\* the locked and the merged flag, as labels of the combined samples
FlagLabelsLiteral ==
  \A j \in 1..Len(sent) :
    LET rec == records[sent[j].r]
    IN /\ (sent[j].desc = "github_issues_all" /\ rec[1].Locked # <<>>) =>
            sent[j].labels[3] = Literal(rec[1].Locked[1])
       /\ (sent[j].desc = "github_pull_requests_all" /\ rec[1].Merged # <<>>) =>
            sent[j].labels[8] = Literal(rec[1].Merged[1])

\* the samples of the repository flags
RepoFlagSamples ==
  {<<j, m>> \in (1..Len(sent)) \X FlagMetrics : sent[j].desc = m[1]}

C15_BooleansRendered ==
  /\ FlagLabelsLiteral
  /\ \A x \in RepoFlagSamples :
       sent[x[1]].value = IF records[sent[x[1]].r][x[2][2]][1] THEN 1 ELSE 0

\* C15 as claimed: no boolean is exported in another representation than the
\* literal "true" or "false", so no repository flag is exported as a number
C15_AllBooleansLiteral ==
  /\ FlagLabelsLiteral
  /\ \A x \in RepoFlagSamples : sent[x[1]].value \notin Nat

\* a pull request that is not merged, with the label "false"
C15_Witness ==
  \E j \in 1..Len(sent) :
    /\ sent[j].desc = "github_pull_requests_all"
    /\ records[sent[j].r][1].Merged = <<FALSE>>
    /\ sent[j].labels[8] = FalseText

(***************************************************************************)
(* C16: nothing is retained between polls. No step changes the             *)
(* configuration; a poll starts at the first entry with no record, sample, *)
(* call or outcome left from the poll before, whatever that poll did, so   *)
(* the failure counter and the duration histogram are all that a poll      *)
(* hands on; the records a poll goes through for an entry are the results  *)
(* of the calls it made itself for that entry; and the samples sent for    *)
(* the entry are determined by the collector kind, the entry and those     *)
(* records alone.                                                          *)
(***************************************************************************)
\* the samples the loop over recs sends for the entry name in its first n turns
RECURSIVE Emitted(_, _, _, _)
Emitted(k, name, recs, n) ==
  IF n = 0 THEN <<>>
  ELSE Emitted(k, name, recs, n - 1) \o Tag(Body(k, name, n, recs).out, n)

C16_FreshStart ==
  /\ config' = config
  /\ pc \in {"idle", "done"} =>
       /\ idx' = 1 /\ pc' = "loop"
       /\ records' = <<>> /\ ri' = 0 /\ optsPage' = 0 /\ repos' = <<>>
       /\ sent' = <<>> /\ calls' = <<>> /\ trace' = <<>>
  /\ pc \notin {"idle", "done"} => (kind' = kind /\ polls' = polls)

C16_OwnResponses ==
  InRecords =>
    /\ records = Results(calls)
    /\ sent = Emitted(kind, config[Cur], records, IF pc = "panic" THEN ri ELSE ri - 1)

C16_NothingRetained == []C16_OwnResponses /\ [][C16_FreshStart]_vars

\* a second poll, after a first one that counted a failure, at the end of the
\* records of an entry it sent samples for
C16_Witness ==
  /\ polls = 2
  /\ Through
  /\ Len(sent) > 0
  /\ FailTotal > Cardinality({t \in 1..Cur : trace[t] \in {"malformed", "error"}})

(***************************************************************************)
(* Two polls of one collector that overlap.  Collect keeps all it works on *)
(* in locals (n, ctx, records, i, labels) and sends to the channel it was  *)
(* handed; the collector's fields are read only, but for the counter and   *)
(* the histogram, whose Inc and Observe are atomic.  The two invocations   *)
(* are overlap.thr[1] and overlap.thr[2], each a record of                 *)
(*   pc, idx, records, ri   as in a poll on its own                        *)
(*   got     the answer the invocation got for each entry it is through:   *)
(*           err, and recs, the records fetched                            *)
(*   fails   the entries of the invocation that failed                     *)
(* overlap.ch[c] is what was sent to the channel c, and overlap.down is    *)
(* TRUE once the process died of a panic nobody recovered.  The resolver   *)
(* of the RepoCollector works on its locals only and is one step here.     *)
(***************************************************************************)
Invocations == {1, 2}

OverlapConfigs ==
  {<<FullNameOf(Acme, Web), <<"j", "u", "s", "t", "a", "n", "a", "m", "e">>>>,
   <<FullNameOf(Acme, StarService)>>,
   <<<<"a", "/", "b", "/", "c">>, FullNameOf(Acme, Web)>>}

\* what the fetch of the collector k for an entry may come back with
Answers(k, name) ==
  {[err |-> TRUE, recs |-> <<>>]} \cup
  {[err |-> FALSE, recs |-> recs] :
     recs \in CASE k = "repo" /\ IsGlob(Split(name, Slash)[2]) ->
                     {<<SearchView(RepoAuth), SearchView(RepoWeb)>>, <<SearchView(RepoPay)>>}
                [] k = "repo" /\ ~IsGlob(Split(name, Slash)[2]) ->
                     {<<RepoWeb>>, <<RepoAuth>>, <<RepoNoName>>}
                [] k = "issue" ->
                     {<<Some(IssueBare), Some(IssueNoReactions)>>, <<Some(IssueFull)>>,
                      <<Some(IssueBare)>>}
                [] k = "pull_request" ->
                     {<<Some(PullRequestOpen), Some(PullRequestUnnamedLabel)>>,
                      <<Some(PullRequestFull)>>, <<Some(PullRequestOpen)>>}}

Channel_Shared(p) == 1

\* the ch Collect was called with: each invocation has its own
Channel(p) == p

Invocation0 == [pc |-> "idle", idx |-> 1, records |-> <<>>, ri |-> 0, got |-> <<>>, fails |-> 0]

OverlapInit ==
  /\ config \in OverlapConfigs
  /\ failures = Touch(Touch(Touch(NoChildren, FailureLabel("repo")), FailureLabel("issue")),
                      FailureLabel("pull_request"))
  /\ duration = NoChildren
  /\ polls = 0
  /\ kind \in Kinds
  /\ pc = "idle"
  /\ idx = 1
  /\ records = <<>>
  /\ ri = 0
  /\ optsPage = 0
  /\ repos = <<>>
  /\ sent = <<>>
  /\ calls = <<>>
  /\ trace = <<>>
  /\ overlap = [thr |-> [p \in Invocations |-> Invocation0],
                ch |-> [c \in Invocations |-> <<>>], down |-> FALSE]
  /\ defers = NoDefers

Thr(p) == overlap.thr[p]
Alive(p) == ~overlap.down /\ p \in DOMAIN overlap.thr
Own ==
  <<config, polls, kind, pc, idx, records, ri, optsPage, repos, sent, calls, trace, defers>>
Becomes(p, t) == overlap' = [overlap EXCEPT !.thr[p] = t]

\* the registry calls Collect
OStart(p) ==
  /\ Alive(p)
  /\ Thr(p).pc = "idle"
  /\ Becomes(p, [Thr(p) EXCEPT !.pc = "loop"])
  /\ UNCHANGED <<failures, duration>>
  /\ UNCHANGED Own

OAtEntry(p) == Alive(p) /\ Thr(p).pc = "loop" /\ Thr(p).idx <= Len(config)
OSegments(p) == Split(config[Thr(p).idx], Slash)

\* an entry that does not split into two segments
OMalformed(p) ==
  /\ OAtEntry(p)
  /\ Malformed(OSegments(p))
  /\ failures' = Inc(failures, FailureLabel(kind))
  /\ Becomes(p, [Thr(p) EXCEPT !.idx = Continue(@), !.fails = @ + 1,
                               !.got = Append(@, [err |-> TRUE, recs |-> <<>>])])
  /\ UNCHANGED duration
  /\ UNCHANGED Own

\* the fetch for the entry, and for the RepoCollector the observation of its
\* duration
OFetch(p) ==
  /\ OAtEntry(p)
  /\ ~Malformed(OSegments(p))
  /\ \E resp \in Answers(kind, config[Thr(p).idx]) :
       Becomes(p, [Thr(p) EXCEPT !.got = Append(@, resp),
                                 !.pc = IF resp.err THEN "failed" ELSE "records",
                                 !.fails = IF resp.err THEN @ + 1 ELSE @,
                                 !.records = resp.recs,
                                 !.ri = IF resp.err THEN 0 ELSE 1])
  /\ duration' = IF kind = "repo" THEN Inc(duration, "repo") ELSE duration
  /\ UNCHANGED failures
  /\ UNCHANGED Own

\* the error branch: count the failure and continue
OFailed(p) ==
  /\ Alive(p)
  /\ Thr(p).pc = "failed"
  /\ failures' = Inc(failures, FailureLabel(kind))
  /\ Becomes(p, [Thr(p) EXCEPT !.pc = "loop", !.idx = Continue(@)])
  /\ UNCHANGED duration
  /\ UNCHANGED Own

\* one turn of the loop over the records
ORecord(p) ==
  /\ Alive(p)
  /\ Thr(p).pc = "records"
  /\ Thr(p).ri <= Len(Thr(p).records)
  /\ LET t == Thr(p)
         res == Body(kind, config[t.idx], t.ri, t.records)
     IN overlap' = [overlap EXCEPT
                      !.ch[Channel(p)] = @ \o Tag(res.out, t.ri),
                      !.thr[p] = IF res.panic THEN [t EXCEPT !.pc = "panic"]
                                 ELSE [t EXCEPT !.ri = @ + 1]]
  /\ UNCHANGED <<failures, duration>>
  /\ UNCHANGED Own

\* the records are exhausted: on to the next entry
OEndRecords(p) ==
  /\ Alive(p)
  /\ Thr(p).pc = "records"
  /\ Thr(p).ri > Len(Thr(p).records)
  /\ Becomes(p, [Thr(p) EXCEPT !.pc = "loop", !.idx = @ + 1, !.records = <<>>, !.ri = 0])
  /\ UNCHANGED <<failures, duration>>
  /\ UNCHANGED Own

\* the entries are exhausted: Collect returns
OEnd(p) ==
  /\ Alive(p)
  /\ Thr(p).pc = "loop"
  /\ Thr(p).idx > Len(config)
  /\ Becomes(p, [Thr(p) EXCEPT !.pc = "done"])
  /\ UNCHANGED <<failures, duration>>
  /\ UNCHANGED Own

\* Collect recovers from no panic: unless a caller does, the panic of one
\* invocation ends the process, and the other invocation with it
Crash ==
  /\ ~overlap.down
  /\ \E p \in DOMAIN overlap.thr : Thr(p).pc = "panic"
  /\ overlap' = [overlap EXCEPT !.down = TRUE]
  /\ UNCHANGED <<failures, duration>>
  /\ UNCHANGED Own

OverlapNext ==
  \/ \E p \in Invocations : OStart(p)
  \/ \E p \in Invocations : OMalformed(p)
  \/ \E p \in Invocations : OFetch(p)
  \/ \E p \in Invocations : OFailed(p)
  \/ \E p \in Invocations : ORecord(p)
  \/ \E p \in Invocations : OEndRecords(p)
  \/ \E p \in Invocations : OEnd(p)
  \/ Crash

OverlapSpec == OverlapInit /\ [][OverlapNext]_vars

\* the record of recs at which the loop body panics, Len(recs) when none does
RECURSIVE PanicAt(_, _, _, _)
PanicAt(k, name, recs, r) ==
  IF r >= Len(recs) THEN Len(recs)
  ELSE IF Body(k, name, r, recs).panic THEN r
  ELSE PanicAt(k, name, recs, r + 1)

Panics(k, name, recs) == \E r \in 1..Len(recs) : Body(k, name, r, recs).panic

\* what a poll of the collector k on its own sends for the entries from i on,
\* when its fetches are answered as got says
RECURSIVE Alone(_, _, _, _)
Alone(k, cfg, got, i) ==
  IF i > Len(got) THEN <<>>
  ELSE IF got[i].err THEN Alone(k, cfg, got, i + 1)
  ELSE LET mine == Emitted(k, cfg[i], got[i].recs, PanicAt(k, cfg[i], got[i].recs, 1))
       IN IF Panics(k, cfg[i], got[i].recs) THEN mine ELSE mine \o Alone(k, cfg, got, i + 1)

\* no step of an invocation is left
Quiet ==
  overlap.down \/ \A p \in DOMAIN overlap.thr : Thr(p).pc \in {"done", "panic"}

FailsOf(p) == Thr(p).fails

\* C17: when two overlapping polls of one collector are over, each has sent to
\* its channel exactly what it would send on its own for the answers it got, and
\* the failure counter stands at the sum of the failures of the two.
C17_Isolated ==
  (Quiet /\ DOMAIN overlap.thr = Invocations) =>
    /\ \A p \in Invocations : overlap.ch[p] = Alone(kind, config, Thr(p).got, 1)
    /\ FailTotal = FailsOf(1) + FailsOf(2)

\* the same, as long as no invocation panics
C17_IsolatedUnlessPanic ==
  (Quiet /\ DOMAIN overlap.thr = Invocations /\ ~overlap.down
     /\ \A p \in Invocations : Thr(p).pc = "done") =>
    /\ \A p \in Invocations : overlap.ch[p] = Alone(kind, config, Thr(p).got, 1)
    /\ FailTotal = FailsOf(1) + FailsOf(2)

\* both polls ran to their end between each other's steps, with failures and
\* samples of both
C17_Overlapped ==
  /\ DOMAIN overlap.thr = Invocations
  /\ \A p \in Invocations : Thr(p).pc = "done" /\ FailsOf(p) > 0 /\ Len(overlap.ch[p]) > 0
  /\ overlap.ch[1] # overlap.ch[2]

(***************************************************************************)
(* C18: within one poll no two samples have the same metric name and the   *)
(* same label values.  Stated for the samples of one entry: no two samples *)
(* sent for it agree in descriptor and label values.                       *)
(***************************************************************************)
SameSeries(a, b) == a.desc = b.desc /\ a.labels = b.labels

C18_NoDuplicateSeries ==
  \A i, j \in 1..Len(sent) : i # j => ~SameSeries(sent[i], sent[j])

\* the duplicates are samples of two different records, and of the combined
\* metric only
C18_OnlyCombinedOfTwoRecords ==
  \A i, j \in 1..Len(sent) :
    (i # j /\ SameSeries(sent[i], sent[j])) =>
      sent[i].desc = AllName(kind) /\ sent[i].r # sent[j].r

(***************************************************************************)
(* C19: the failure counter, label "repo", is 0 at construction, never     *)
(* decreases, and grows in a poll by one for each malformed entry and one  *)
(* for each well-formed entry whose fetch returned an error, and by        *)
(* nothing else: a step adds one exactly when it meets a malformed entry   *)
(* or its call returns an error, so the steps of an entry whose fetch      *)
(* succeeded add nothing whatever its records hold, and the growth since   *)
(* the poll began is the number of its entries that ended malformed or in  *)
(* an error.                                                               *)
(***************************************************************************)
Counted == Value(failures, "repo")

\* the entries of the poll that ended malformed or in an error
Tally(tr) == Cardinality({t \in 1..Len(tr) : tr[t] \in {"malformed", "error"}})

\* the step meets a malformed entry, or makes a call that returns an error
FailureStep ==
  \/ EntryLeft /\ ~TwoSegments(config[idx])
  \/ CallStep /\ Len(calls') > 0 /\ calls'[Len(calls')].err

C19_AtConstruction == polls = 0 => ("repo" \in DOMAIN failures /\ failures["repo"] = 0)

C19_Outcomes ==
  \A t \in 1..Cur :
    /\ trace[t] = "malformed" <=> ~TwoSegments(config[t])
    /\ (t = Cur /\ trace[t] = "error") => calls[Len(calls)].err
    /\ (t = Cur /\ trace[t] = "ok" /\ InRecords) => ~calls[Len(calls)].err

C19_CountStep ==
  /\ Value(failures', "repo") = Counted + (IF FailureStep THEN 1 ELSE 0)
  /\ pc \notin {"idle", "done"} =>
       Value(failures', "repo") - Counted = Tally(trace') - Tally(trace)
  /\ DOMAIN failures' = {"repo"}

C19_FailureCounter == []C19_AtConstruction /\ []C19_Outcomes /\ [][C19_CountStep]_vars

\* a second poll through an entry whose fetch returned a nil record next to
\* full and bare ones, after a malformed entry, the first poll having counted two
C19_Witness ==
  /\ polls = 2
  /\ kind = "issue"
  /\ trace = <<"malformed", "ok">>
  /\ Through
  /\ \E r \in 1..Len(records) : records[r] = None
  /\ Counted = 3

(***************************************************************************)
(* C20: the targets of a poll are dealt with one after the other in the    *)
(* configured order.  The poll never steps back to an earlier entry; a     *)
(* step makes at most one call, for the entry the poll is at, and only     *)
(* from the head of the loop or inside the resolver, where the call before *)
(* it has returned; a step that sends samples sends those of the record    *)
(* the loop is at, for the entry the poll is at, and makes no call; the    *)
(* poll leaves an entry only when all its records are through; and the     *)
(* samples of an entry stand in the order of its records.                  *)
(***************************************************************************)
IsPrefix(a, b) == Len(a) <= Len(b) /\ SubSeq(b, 1, Len(a)) = a

C20_InOrderStep ==
  /\ pc \notin {"idle", "done"} => (idx' = idx \/ idx' = idx + 1)
  /\ (calls' # calls /\ calls' # <<>>) =>
       /\ CallStep
       /\ calls' = IF pc = "search" THEN Append(calls, calls'[Len(calls')])
                   ELSE <<calls'[1]>>
       /\ calls'[Len(calls')].owner = OwnerPart(config[idx])
       /\ calls'[Len(calls')].repo \in {NamePart(config[idx]), Empty}
       /\ Len(trace') = idx
  /\ (sent' # sent /\ sent' # <<>>) =>
       /\ pc = "records"
       /\ Cur = idx
       /\ idx' = idx
       /\ calls' = calls
       /\ IsPrefix(sent, sent')
       /\ \A j \in (Len(sent) + 1)..Len(sent') : sent'[j].r = ri
       /\ ri' \in {ri, ri + 1}
  /\ (pc = "records" /\ ri <= Len(records)) => (idx' = idx /\ calls' = calls)
  /\ (pc = "records" /\ idx' # idx) => (ri > Len(records) /\ idx' = idx + 1)

C20_RecordOrder ==
  /\ \A i, j \in 1..Len(sent) : i < j => sent[i].r <= sent[j].r
  /\ \A j \in 1..Len(sent) : sent[j].r <= ri
  /\ pc \in {"loop", "search", "records", "panic"} => Cur \in {idx - 1, idx}

C20_Sequential == []C20_RecordOrder /\ [][C20_InOrderStep]_vars

\* the second of two targets, after the search and the samples of the first:
\* its one call made and the samples of its record sent
C20_Witness ==
  /\ kind = "repo"
  /\ HasStar(config[1])
  /\ trace = <<"ok", "ok">>
  /\ idx = 2
  /\ Through
  /\ Len(calls) = 1
  /\ Len(sent) > 1

(***************************************************************************)
(* C21: in the search of the RepoCollector an error on a page discards the *)
(* repositories of the pages before it: the step whose call errs leaves    *)
(* Collect with no records and the resolver with nothing accumulated,      *)
(* counts one failure and moves to the next entry, no sample having been   *)
(* sent for the entry; and the records Collect loops over are never those  *)
(* of a search that erred.                                                 *)
(***************************************************************************)
C21_ErrorStep ==
  (pc = "search" /\ calls'[Len(calls')].err) =>
    /\ records' = <<>>
    /\ repos' = <<>>
    /\ sent = <<>> /\ sent' = <<>>
    /\ FailTotal' = FailTotal + 1
    /\ Counted' = Counted + 1
    /\ pc' = "loop"
    /\ idx' = idx + 1
    /\ trace'[idx] = "error"

C21_NoPartialResults ==
  /\ pc = "search" => (sent = <<>> /\ records = <<>> /\ repos = Results(calls))
  /\ (kind = "repo" /\ InRecords) => \A j \in 1..Len(calls) : ~calls[j].err
  /\ (Cur > 0 /\ trace[Cur] = "error") => (records = <<>> /\ sent = <<>> /\ repos = <<>>)

C21_SearchErrorDiscards == []C21_NoPartialResults /\ [][C21_ErrorStep]_vars

\* a first page with two repositories, an error on the second page: one failure,
\* no records, no samples
C21_Witness ==
  /\ kind = "repo"
  /\ polls = 1
  /\ Cur = 1 /\ trace[1] = "error"
  /\ Len(calls) = 2
  /\ Len(calls[1].result) = 2
  /\ calls[2].err
  /\ records = <<>> /\ sent = <<>>
  /\ Counted = 1

(***************************************************************************)
(* C22: for an entry without "*" the RepoCollector sends samples only when *)
(* the full name of the repository the direct get returned is the entry,   *)
(* character for character; when it is not, no sample is sent for the      *)
(* entry and the failure counter stays as it was.                          *)
(***************************************************************************)
DirectEntry == kind = "repo" /\ InRecords /\ ~HasStar(config[Cur])

\* the get returned a repository under another full name than the entry
OtherName == records[1].FullName # <<>> /\ records[1].FullName[1] # config[Cur]

C22_OnlyExactName ==
  DirectEntry =>
    /\ Len(records) = 1
    /\ sent # <<>> => records[1].FullName = Some(config[Cur])
    /\ OtherName => sent = <<>>
    /\ (records[1].FullName = Some(config[Cur]) /\ records[1].Name # <<>> /\ ri > 1) =>
         sent # <<>>

C22_NoFailureStep ==
  (DirectEntry /\ OtherName) =>
    /\ Counted' = Counted
    /\ FailTotal' = FailTotal
    /\ sent' = <<>>

C22_ExactNameOnly == []C22_OnlyExactName /\ [][C22_NoFailureStep]_vars

\* the get for "acme/web" returned the repository as "Acme/web": its record is
\* through, nothing was sent and nothing counted
C22_Witness ==
  /\ DirectEntry
  /\ Through
  /\ config[Cur] = FullNameOf(Acme, Web)
  /\ records[1].FullName = Some(FullNameOf(<<"A", "c", "m", "e">>, Web))
  /\ sent = <<>>
  /\ FailTotal = 0

(***************************************************************************)
(* C23: the cancel of each per-target context is deferred to the end of    *)
(* Collect.  While the poll runs no cancel has run and the contexts        *)
(* pending are those of the well-formed entries reached so far, one each,  *)
(* in their order; once Collect is left the cancel of every one of them    *)
(* has run exactly once and none is pending, whether the fetch of the      *)
(* entry failed or not.                                                    *)
(***************************************************************************)
\* the positions of the well-formed entries among the first n
WellFormedUpTo(n) == {t \in 1..n : TwoSegments(config[t])}

\* q lists the contexts of the entries at the positions in ts, one each
OneEach(q, ts) ==
  /\ Len(q) = Cardinality(ts)
  /\ {q[j].made : j \in 1..Len(q)} = ts
  /\ \A j \in 1..Len(q) : q[j] = ContextOf(q[j].made)

C23_HeldUntilReturn ==
  /\ pc \in {"loop", "search", "records"} =>
       /\ defers.ran = <<>>
       /\ OneEach(defers.pending, WellFormedUpTo(Cur))
       /\ \A i, j \in 1..Len(defers.pending) :
            i < j => defers.pending[i].made < defers.pending[j].made
  /\ pc \in {"done", "panic"} =>
       /\ defers.pending = <<>>
       /\ OneEach(defers.ran, WellFormedUpTo(Cur))
  /\ pc = "done" => Cur = Len(config)

C23_CancelStep ==
  /\ defers'.ran # defers.ran => (pc' \in {"done", "panic", "loop"} /\ pc # pc')
  /\ (pc \in {"loop", "search", "records"} /\ pc' \in {"loop", "search", "records"}) =>
       /\ defers'.ran = <<>>
       /\ IsPrefix(defers.pending, defers'.pending)

C23_DeferredCancel == []C23_HeldUntilReturn /\ [][C23_CancelStep]_vars

\* Collect returned from a poll of two well-formed entries, the fetch of the
\* first of which failed: both cancels ran, the later context first
C23_Witness ==
  /\ pc = "done"
  /\ trace = <<"error", "ok">>
  /\ Len(defers.ran) = 2
  /\ defers.ran[1].made = 2
  /\ defers.ran[2].made = 1

\* two contexts held at once, inside the poll
C23_WitnessHeld ==
  /\ pc = "records"
  /\ trace = <<"error", "ok">>
  /\ Len(defers.pending) = 2

(***************************************************************************)
(* C24: Describe of each collector sends the descriptors Metrics returns,  *)
(* in the same order and each once; and every sample Collect sends is of   *)
(* one of the descriptors its collector describes and carries as many      *)
(* label values as that descriptor has label names.                        *)
(***************************************************************************)
Described(k) == {Describe(k)[j] : j \in 1..Len(Describe(k))}

C24_DescribedSchema ==
  /\ \A k \in Kinds :
       /\ Describe(k) = Metrics(k)
       /\ Cardinality({Describe(k)[j].name : j \in 1..Len(Describe(k))}) = Len(Describe(k))
  /\ \A j \in 1..Len(sent) :
       \E d \in Described(kind) :
         d.name = sent[j].desc /\ Len(sent[j].labels) = Len(d.labels)

\* a repository with every field present: a sample of each of the twenty-two
\* descriptors
C24_Witness ==
  /\ kind = "repo"
  /\ Through
  /\ {sent[j].desc : j \in 1..Len(sent)} = {d.name : d \in Described("repo")}
  /\ Len(Describe("repo")) = 22

(***************************************************************************)
(* C25: the check of an entry counts its segments and nothing else.  An    *)
(* entry with exactly one "/" is taken as well-formed although its owner   *)
(* or its name is empty, and the call is made with the empty segment; the  *)
(* empty string, an entry without "/" and an entry with two or more "/"    *)
(* are malformed: no call, one failure.                                    *)
(***************************************************************************)
EmptySegment(s) == TwoSegments(s) /\ (OwnerPart(s) = Empty \/ NamePart(s) = Empty)

C25_SegmentStep ==
  EntryLeft =>
    IF SlashCount(config[idx]) = 1
    THEN /\ Len(calls') = 1
         /\ calls'[1].owner = OwnerPart(config[idx])
         /\ calls'[1].api # "Search.Repositories" => calls'[1].repo = NamePart(config[idx])
         /\ ~calls'[1].err => FailTotal' = FailTotal
    ELSE /\ calls' = <<>>
         /\ FailTotal' = FailTotal + 1
         /\ idx' = idx + 1
         /\ trace'[idx] = "malformed"

C25_SegmentOutcome ==
  \A t \in 1..Cur :
    /\ trace[t] = "malformed" <=> SlashCount(config[t]) # 1
    /\ (config[t] = Empty \/ SlashCount(config[t]) = 0 \/ SlashCount(config[t]) >= 2) =>
         trace[t] = "malformed"
    /\ EmptySegment(config[t]) => trace[t] # "malformed"

C25_SegmentsOnly == []C25_SegmentOutcome /\ [][C25_SegmentStep]_vars

\* the entry "/": the list call was made with an empty owner and an empty
\* repository name and answered without an error
C25_Witness ==
  /\ kind = "issue"
  /\ config = <<<<Slash>>>>
  /\ Cur = 1 /\ trace[1] = "ok"
  /\ Len(calls) = 1
  /\ calls[1].owner = Empty /\ calls[1].repo = Empty
  /\ FailTotal = 0

\* the empty string as an entry: malformed
C25_WitnessEmpty ==
  /\ config = <<Empty>>
  /\ Cur = 1 /\ trace[1] = "malformed"
  /\ FailTotal = 1

(***************************************************************************)
(* C26: the RepoCollector observes one duration for each well-formed entry *)
(* of a poll, when its resolver returns, with or without an error, however *)
(* many pages the search took, and none for a malformed entry; the two     *)
(* other collectors observe none.  Stated per step, and per poll as the    *)
(* growth of the number of observations against the entries that ended     *)
(* with the resolver having returned.                                      *)
(***************************************************************************)
Observed == Value(duration, "repo")

\* the entries of the poll whose resolver returned
Resolved(tr) == Cardinality({t \in 1..Len(tr) : tr[t] \in {"ok", "error"}})

\* the step on which the resolver of the RepoCollector returns
ResolverReturns == kind = "repo" /\ CallStep /\ pc' # "search"

C26_ObserveStep ==
  /\ Value(duration', "repo") = Observed + (IF ResolverReturns THEN 1 ELSE 0)
  /\ DOMAIN duration' \subseteq {"repo"}
  /\ kind' \in {"issue", "pull_request"} => duration' = duration
  /\ (EntryLeft /\ ~TwoSegments(config[idx])) => duration' = duration
  /\ (kind = "repo" /\ pc \notin {"idle", "done"}) =>
       Value(duration', "repo") - Observed = Resolved(trace') - Resolved(trace)

C26_OncePerTarget == [][C26_ObserveStep]_vars

\* one poll of the RepoCollector: a get that failed, then a search of two pages
\* that succeeded: two observations
C26_Witness ==
  /\ kind = "repo"
  /\ polls = 1
  /\ trace = <<"error", "ok">>
  /\ Len(calls) = 2
  /\ Through
  /\ Observed = 2

(***************************************************************************)
(* C27: every github_pull_requests_all sample carries the empty string for *)
(* "assignees" and "requested_reviewers" whatever assignees and reviewers  *)
(* its record lists; its "labels" value, like the "label" value of a       *)
(* github_issues_all sample, is the name of the first label of the record, *)
(* or the empty string when the record has no label; and the name of no    *)
(* later label is found among the label values.                            *)
(***************************************************************************)
\* the position of a label name in the label names of a descriptor
Position(desc, l) == CHOOSE j \in 1..Len(desc.labels) : desc.labels[j] = l

\* the names of the labels of a record after its first, the first's own left out
LaterLabelNames(ls) ==
  {ls[j][1].Name[1] : j \in {n \in 2..Len(ls) : ls[n] # <<>> /\ ls[n][1].Name # <<>>}}
    \ {ls[1][1].Name[1]}

FirstLabelOnly(value, ls, all) ==
  IF ls = <<>> THEN value = Empty
  ELSE /\ value = ls[1][1].Name[1]
       /\ \A l \in LaterLabelNames(ls) : \A j \in 1..Len(all) : all[j] # l

C27_FirstLabelOnly ==
  \A j \in 1..Len(sent) :
    LET s == sent[j]
        rec == records[s.r][1]
    IN /\ s.desc = "github_pull_requests_all" =>
            /\ s.labels[Position(PullRequestDesc.All, "assignees")] = Empty
            /\ s.labels[Position(PullRequestDesc.All, "requested_reviewers")] = Empty
            /\ FirstLabelOnly(s.labels[Position(PullRequestDesc.All, "labels")],
                              rec.Labels, s.labels)
       /\ s.desc = "github_issues_all" =>
            FirstLabelOnly(s.labels[Position(IssueDesc.All, "label")], rec.Labels, s.labels)

\* a pull request with two assignees, a reviewer and the labels "x", nil, "y":
\* its sample has "x" for "labels" and nothing for the assignees and reviewers
C27_Witness ==
  /\ kind = "pull_request"
  /\ Len(sent) > 0
  /\ records[sent[1].r] = Some(PullRequestFull)
  /\ Len(PullRequestFull.Assignees) = 2
  /\ Len(PullRequestFull.RequestedReviewers) = 1
  /\ sent[1].labels[6] = Text("x")
  /\ sent[1].labels[17] = Empty
  /\ sent[1].labels[19] = Empty

====
